---------------------------- MODULE Spec2Model ----------------------------
(***************************************************************************)
(* Depth-buffered triangle compositing of kwiver's arrows/core             *)
(* render_mesh_depth_map: the three overloads of render_triangle, the      *)
(* plane interpolation they share and the scan conversion they drive.      *)
(*                                                                         *)
(* Numbers.  A double is modelled as an exact rational <<n, d>> in lowest  *)
(* terms with d > 0; the three non-finite doubles are <<1, 0>> (+inf),     *)
(* <<-1, 0>> (-inf) and <<0, 0>> (NaN).  Rounding of the double arithmetic *)
(* is not modelled, and a zero divisor is taken as +0.                     *)
(***************************************************************************)
EXTENDS Integers, Sequences, FiniteSets, TLC

(***************************************************************************)
(* Bounds of the model.                                                    *)
(***************************************************************************)
\* the vertex array spans the right triangle with legs of MaxCoord pixels
MaxCoord == 4
\* the buffers are at most MaxDim pixels wide and high
MaxDim == 4
\* per-vertex depths and fill values are integers in 1..MaxDepth
MaxDepth == 2
\* number of render_triangle calls composited into one buffer
MaxCalls == 2

(***************************************************************************)
(* Double arithmetic.                                                      *)
(***************************************************************************)
Abs(i) == IF i < 0 THEN -i ELSE i

Sign(i) == IF i < 0 THEN -1 ELSE IF i > 0 THEN 1 ELSE 0

RECURSIVE GCD(_, _)
GCD(a, b) == IF b = 0 THEN a ELSE GCD(b, a % b)

\* the double n/d, in lowest terms; n/0 is +inf, -inf or NaN by the sign of n
Norm(n, d) ==
  IF d = 0 THEN <<Sign(n), 0>>
  ELSE LET g == GCD(Abs(n), Abs(d))
       IN  <<(Sign(d) * n) \div g, Abs(d) \div g>>

Q(i) == <<i, 1>>

Inf == <<1, 0>>

NegInf == <<-1, 0>>

NaN == <<0, 0>>

IsNaN(a) == a = NaN

\* std::isinf
IsInf(a) == a = Inf \/ a = NegInf

IsFinite(a) == a[2] # 0

Neg(a) == <<-a[1], a[2]>>

Add(a, b) ==
  IF IsFinite(a) /\ IsFinite(b) THEN Norm(a[1] * b[2] + b[1] * a[2], a[2] * b[2])
  ELSE IF IsNaN(a) \/ IsNaN(b) THEN NaN
  ELSE IF IsFinite(a) THEN b
  ELSE IF IsFinite(b) THEN a
  ELSE IF a = b THEN a ELSE NaN

Sub(a, b) == Add(a, Neg(b))

Mul(a, b) == Norm(a[1] * b[1], a[2] * b[2])

Div(a, b) ==
  IF b[1] < 0 THEN Norm(-(a[1] * b[2]), -(a[2] * b[1]))
  ELSE Norm(a[1] * b[2], a[2] * b[1])

\* a < b on doubles: false as soon as one side is NaN
Less(a, b) ==
  /\ ~IsNaN(a)
  /\ ~IsNaN(b)
  /\ IF IsFinite(a) /\ IsFinite(b) THEN a[1] * b[2] < b[1] * a[2]
     ELSE IF IsFinite(a) THEN b = Inf
     ELSE IF IsFinite(b) THEN a = NegInf
     ELSE a = NegInf /\ b = Inf

\* static_cast<int>(double): truncation toward zero
Trunc(a) == Sign(a[1]) * (Abs(a[1]) \div a[2])


(***************************************************************************)
(* Scan Converter (arrows/core/triangle_scan_iterator.h, which this       *)
(* source tree does not hold).  A pixel is covered when it lies inside    *)
(* the triangle or on one of its top or left edges; a triangle of zero    *)
(* area covers nothing.  Rows grow downward.                              *)
(***************************************************************************)
Min2(a, b) == IF a < b THEN a ELSE b

Max2(a, b) == IF a > b THEN a ELSE b

Min3(a, b, c) == Min2(a, Min2(b, c))

Max3(a, b, c) == Max2(a, Max2(b, c))

\* twice the signed area of the triangle v1 v2 v3
Area2(v1, v2, v3) ==
  (v2[1] - v1[1]) * (v3[2] - v1[2]) - (v2[2] - v1[2]) * (v3[1] - v1[1])

\* the pixel <<x, y>> is on the inner side of the directed edge p -> q, an
\* edge through the pixel counting when it is a left or a top edge
EdgeIn(p, q, x, y) ==
  LET dx == q[1] - p[1]
      dy == q[2] - p[2]
      e  == dx * (y - p[2]) - dy * (x - p[1])
  IN  \/ e > 0
      \/ e = 0 /\ (dy < 0 \/ (dy = 0 /\ dx > 0))

Covers(v1, v2, v3, x, y) ==
  LET a2 == Area2(v1, v2, v3)
      w2 == IF a2 > 0 THEN v2 ELSE v3
      w3 == IF a2 > 0 THEN v3 ELSE v2
  IN  /\ a2 # 0
      /\ EdgeIn(v1, w2, x, y)
      /\ EdgeIn(w2, w3, x, y)
      /\ EdgeIn(w3, v1, x, y)

\* the iterator's output after tsi.reset(): for each scanline between the
\* lowest and the highest vertex, the columns the triangle covers on it
ScanLines(v1, v2, v3) ==
  LET a2 == Area2(v1, v2, v3)
      w2 == IF a2 > 0 THEN v2 ELSE v3
      w3 == IF a2 > 0 THEN v3 ELSE v2
  IN  [y \in Min3(v1[2], v2[2], v3[2]) .. Max3(v1[2], v2[2], v3[2]) |->
        IF a2 = 0 THEN {}
        ELSE {x \in Min3(v1[1], v2[1], v3[1]) .. Max3(v1[1], v2[1], v3[1]) :
                /\ EdgeIn(v1, w2, x, y)
                /\ EdgeIn(w2, w3, x, y)
                /\ EdgeIn(w3, v1, x, y)}]

\* tsi.start_x() and tsi.end_x() of a scanline with the columns span
StartX(span) == CHOOSE x \in span : \A z \in span : x <= z

EndX(span) == CHOOSE x \in span : \A z \in span : x >= z

(***************************************************************************)
(* Plane Interpolator: the plane value = A*x + B*y + C through the three   *)
(* points (vi.x, vi.y, value_vi), from the cross product of two edges.     *)
(***************************************************************************)
\* a plane whose C leaves out the term value_v1 * n_z
PlaneOf_NoOffset(v1, v2, v3, value_v1, value_v2, value_v3) ==
  LET b1x == Q(v2[1] - v1[1])
      b1y == Q(v2[2] - v1[2])
      b1z == Sub(value_v2, value_v1)
      b2x == Q(v3[1] - v1[1])
      b2y == Q(v3[2] - v1[2])
      b2z == Sub(value_v3, value_v1)
      nx  == Sub(Mul(b1y, b2z), Mul(b1z, b2y))
      ny  == Sub(Mul(b1z, b2x), Mul(b1x, b2z))
      nz  == Sub(Mul(b1x, b2y), Mul(b1y, b2x))
  IN  [A |-> Div(Neg(nx), nz),
       B |-> Div(Neg(ny), nz),
       C |-> Div(Add(Mul(Q(v1[1]), nx), Mul(Q(v1[2]), ny)), nz)]

PlaneOf(v1, v2, v3, value_v1, value_v2, value_v3) ==
  LET b1x == Q(v2[1] - v1[1])
      b1y == Q(v2[2] - v1[2])
      b1z == Sub(value_v2, value_v1)
      b2x == Q(v3[1] - v1[1])
      b2y == Q(v3[2] - v1[2])
      b2z == Sub(value_v3, value_v1)
      nx  == Sub(Mul(b1y, b2z), Mul(b1z, b2y))
      ny  == Sub(Mul(b1z, b2x), Mul(b1x, b2z))
      nz  == Sub(Mul(b1x, b2y), Mul(b1y, b2x))
  IN  [A |-> Div(Neg(nx), nz),
       B |-> Div(Neg(ny), nz),
       C |-> Div(Add(Add(Mul(Q(v1[1]), nx), Mul(Q(v1[2]), ny)),
                     Mul(value_v1, nz)), nz)]

\* new_i = B * y + C; value = new_i + A * x
PlaneAt(pl, x, y) == Add(Add(Mul(pl.B, Q(y)), pl.C), Mul(pl.A, Q(x)))

(***************************************************************************)
(* Images: vital::image_of<T>(width, height, 1), pixel (x, y) at data[x,y] *)
(***************************************************************************)
Pixels(width, height) == (0 .. width - 1) \X (0 .. height - 1)

NewImage(width, height, fill) ==
  [width |-> width, height |-> height,
   data |-> [p \in Pixels(width, height) |-> fill]]

\* loops that run over the whole of every row the triangle touches
LoopPixels_FullRows(v1, v2, v3, width, height) ==
  LET tsi == ScanLines(v1, v2, v3)
  IN  UNION {
        {<<x, y>> : x \in 0 .. width - 1} :
        y \in {r \in DOMAIN tsi :
                 tsi[r] # {} /\ ~(r < 0 \/ r >= height)}}

\* column loops that stop before end_x (x < end_x)
LoopPixels_EndExclusive(v1, v2, v3, width, height) ==
  LET tsi == ScanLines(v1, v2, v3)
  IN  UNION {
        {<<x, y>> : x \in Max2(0, StartX(tsi[y])) ..
                          Min2(width - 1, EndX(tsi[y])) - 1} :
        y \in {r \in DOMAIN tsi :
                 tsi[r] # {} /\ ~(r < 0 \/ r >= height)}}

\* column loops that run one past end_x (x <= end_x + 1)
LoopPixels_PastEnd(v1, v2, v3, width, height) ==
  LET tsi == ScanLines(v1, v2, v3)
  IN  UNION {
        {<<x, y>> : x \in Max2(0, StartX(tsi[y])) ..
                          Min2(width - 1, EndX(tsi[y]) + 1)} :
        y \in {r \in DOMAIN tsi :
                 tsi[r] # {} /\ ~(r < 0 \/ r >= height)}}

\* loops over the bounding box of the three vertices instead of the rows and
\* spans of the scan iterator
LoopPixels_BBox(v1, v2, v3, width, height) ==
  {p \in (Max2(0, Min3(v1[1], v2[1], v3[1])) ..
            Min2(width - 1, Max3(v1[1], v2[1], v3[1]))) \X
         (Max2(0, Min3(v1[2], v2[2], v3[2])) ..
            Min2(height - 1, Max3(v1[2], v2[2], v3[2]))) : TRUE}

\* the pixels the two loops of render_triangle reach in an image of the
\* given size: rows outside the image are skipped, columns are clamped
LoopPixels(v1, v2, v3, width, height) ==
  LET tsi == ScanLines(v1, v2, v3)
  IN  UNION {
        {<<x, y>> : x \in Max2(0, StartX(tsi[y])) ..
                          Min2(width - 1, EndX(tsi[y]))} :
        y \in {r \in DOMAIN tsi :
                 tsi[r] # {} /\ ~(r < 0 \/ r >= height)}}

(***************************************************************************)
(* render_triangle, in its three call shapes.  Each returns the buffers    *)
(* after the call.  Shape (a) bounds its loops by the depth image, shapes  *)
(* (b) and (c) by the paired image; a pixel the loops reach outside the    *)
(* depth image is left to the specifications that pair unequal buffers.    *)
(***************************************************************************)
\* static_cast<T>(attrib) for T = double and T = int
CastT(type, a) == IF type = "double" THEN a ELSE Q(Trunc(a))

\* a loop body without the depth test: the last triangle drawn wins
DepthWrite_NoTest(depth, stored) == depth

\* loop body of shape (a): the depth stored at the pixel after the test
DepthWrite(depth, stored) ==
  IF Less(depth, stored) THEN depth ELSE stored

\* shape (b) without the depth test
AttribWrite_NoTest(depth, attrib, stored, old, type) ==
  <<depth, CastT(type, attrib)>>

\* shape (b) writing the attribute whether or not the depth test passes
AttribWrite_ImgAlways(depth, attrib, stored, old, type) ==
  <<IF Less(depth, stored) THEN depth ELSE stored, CastT(type, attrib)>>

\* loop body of shape (b): <<depth, attribute>> stored at the pixel
AttribWrite(depth, attrib, stored, old, type) ==
  IF Less(depth, stored) THEN <<depth, CastT(type, attrib)>>
  ELSE <<stored, old>>

\* shape (c) writing the fill value whether or not the depth test passes
ValueWrite_ImgAlways(depth, value, stored, old) ==
  <<IF Less(depth, stored) THEN depth ELSE stored, value>>

\* shape (c) with the test depth <= stored: an equal depth overwrites
ValueWrite_OnTie(depth, value, stored, old) ==
  IF ~Less(stored, depth) THEN <<depth, value>> ELSE <<stored, old>>

\* loop body of shape (c): <<depth, value>> stored at the pixel
ValueWrite(depth, value, stored, old) ==
  IF Less(depth, stored) THEN <<depth, value>> ELSE <<stored, old>>

\* (a) depth only
render_triangle(v1, v2, v3, depth_v1, depth_v2, depth_v3, dimg) ==
  LET pl == PlaneOf(v1, v2, v3, depth_v1, depth_v2, depth_v3)
      px == LoopPixels(v1, v2, v3, dimg.width, dimg.height)
  IN  [dimg EXCEPT !.data =
        [p \in DOMAIN dimg.data |->
           IF p \in px
           THEN DepthWrite(PlaneAt(pl, p[1], p[2]), dimg.data[p])
           ELSE dimg.data[p]]]

\* (b) depth and one linearly interpolated attribute
render_triangle_attrib(v1, v2, v3, depth_v1, depth_v2, depth_v3, attrib_v1, attrib_v2, attrib_v3, dimg, im, type) ==
  LET pl   == PlaneOf(v1, v2, v3, Q(attrib_v1), Q(attrib_v2), Q(attrib_v3))
      pl_d == PlaneOf(v1, v2, v3, depth_v1, depth_v2, depth_v3)
      px   == LoopPixels(v1, v2, v3, im.width, im.height)
               \cap DOMAIN dimg.data
      new  == [p \in px |->
                 AttribWrite(PlaneAt(pl_d, p[1], p[2]), PlaneAt(pl, p[1], p[2]),
                             dimg.data[p], im.data[p], type)]
  IN  [depth_img |->
         [dimg EXCEPT !.data =
            [p \in DOMAIN dimg.data |->
               IF p \in px THEN new[p][1] ELSE dimg.data[p]]],
       img |->
         [im EXCEPT !.data =
            [p \in DOMAIN im.data |->
               IF p \in px THEN new[p][2] ELSE im.data[p]]]]

\* (c) depth and a constant fill value
render_triangle_value(v1, v2, v3, depth_v1, depth_v2, depth_v3, value, dimg, im) ==
  LET pl  == PlaneOf(v1, v2, v3, depth_v1, depth_v2, depth_v3)
      px  == LoopPixels(v1, v2, v3, im.width, im.height)
               \cap DOMAIN dimg.data
      new == [p \in px |->
                ValueWrite(PlaneAt(pl, p[1], p[2]), Q(value),
                           dimg.data[p], im.data[p])]
  IN  [depth_img |->
         [dimg EXCEPT !.data =
            [p \in DOMAIN dimg.data |->
               IF p \in px THEN new[p][1] ELSE dimg.data[p]]],
       img |->
         [im EXCEPT !.data =
            [p \in DOMAIN im.data |->
               IF p \in px THEN new[p][2] ELSE im.data[p]]]]

(***************************************************************************)
(* State: one depth image and its paired image, composited by a sequence   *)
(* of render_triangle calls on the faces of a vertex array.                *)
(***************************************************************************)
VARIABLES
  points_2d,    \* the 2D vertex array
  attribs,      \* one integer attribute per vertex
  triangles,    \* the faces, triples of vertex indices
  depth_img,    \* the depth buffer
  img,          \* its paired output buffer
  pixel_type,   \* T of image_of<T> img: "double" or "int"
  faces_left,   \* number of render_triangle calls still to come
  hist,         \* the calls made so far, in submission order
  mesh,         \* the mesh handed to render_mesh_depth_map / _height_map
  camera,       \* the camera handed to them and to depth_map_to_height_map
  log,          \* the messages given to LOG_ERROR, in order
  returned,     \* the image a render_mesh_* call returned, and by which
  in_depth_map,    \* the depth_map argument of depth_map_to_height_map
  out_height_map,  \* its height_map argument, the output buffer
  point_cloud,     \* texture_mesh: the positions and colours of the cloud
  face_i,          \* texture_mesh: the face the outer loop is at
  pixel_pts,       \* texture_mesh: the 3D points of the face's texels
  pixel_indices,   \* texture_mesh: the pixel indices of the face's texels
  texture_image,   \* texture_mesh: the image written
  out_of_image,    \* pixel indices outside the image a write was made at
  thrown,          \* texture_mesh was left by an exception
  nn_queries,      \* the calls of nn_search->find_nearest_points so far
  workers,         \* concurrent compositing: each worker's triangle and
                   \* the pixels it still has to test and write
  accessed,        \* unequal buffers: the buffer elements the last
                   \* render_triangle call read or wrote
  cmd_args,        \* applet: the parsed command line
  env,             \* applet: the configuration file and the mesh directory
  app,             \* applet: the members of priv and the position in run()
  events,          \* applet: the collaborator calls made so far, in order
  exception,       \* applet: the exception a call threw, if one did
  exit_code,       \* applet: what run() returned, "none" while it runs
  points,          \* run_mesh_closest_points: the query points
  idx_vals,        \* its array of triangle indices
  u_vals,          \* its array of u coordinates
  v_vals,          \* its array of v coordinates
  cp_vals,         \* its array of closest points
  iter,            \* the progress of each iteration of its parallel loop
  retVal,          \* the list it returns
  closest_points   \* the Python list it appends to

vars ==
  <<points_2d, attribs, triangles, depth_img, img, pixel_type, faces_left,
    hist, mesh, camera, log, returned, in_depth_map, out_height_map,
    point_cloud, face_i, pixel_pts, pixel_indices, texture_image,
    out_of_image, thrown, nn_queries, workers, accessed, cmd_args, env, app,
    events, exception, exit_code, points, idx_vals, u_vals, v_vals, cp_vals,
    iter, retVal, closest_points>>

\* what the render_mesh_* entry points work on
meshvars ==
  <<mesh, camera, log, returned, in_depth_map, out_height_map>>

\* no mesh and no camera: render_triangle is called on its own
NoMesh ==
  /\ mesh = [vertices |-> <<>>, faces |-> <<>>, regularity |-> 3]
  /\ camera = [perspective |-> FALSE, P |-> <<>>, width |-> 0, height |-> 0]
  /\ log = <<>>
  /\ returned = [by |-> "none", image |-> NewImage(0, 0, Inf)]
  /\ in_depth_map = NewImage(0, 0, Inf)
  /\ out_height_map = NewImage(0, 0, Inf)

\* what texture_mesh works on
bakevars ==
  <<point_cloud, face_i, pixel_pts, pixel_indices, texture_image,
    out_of_image, thrown, nn_queries>>

\* no texture is baked
NoBake ==
  /\ point_cloud = <<>>
  /\ face_i = 0
  /\ pixel_pts = <<>>
  /\ pixel_indices = <<>>
  /\ texture_image = <<>>
  /\ out_of_image = <<>>
  /\ thrown = FALSE
  /\ nn_queries = <<>>

\* what the concurrent compositing and the calls on unequal buffers work on
runvars ==
  <<workers, accessed>>

\* nothing runs concurrently, no access is recorded
NoRun ==
  /\ workers = <<>>
  /\ accessed = {}

\* no exception has been thrown
NoException == [type |-> "none", what |-> ""]

\* what the texture-from-pointcloud applet works on
appvars ==
  <<cmd_args, env, app, events, exception, exit_code>>

\* the applet is not run
NoApp ==
  /\ cmd_args = <<>>
  /\ env = <<>>
  /\ app = <<>>
  /\ events = <<>>
  /\ exception = NoException
  /\ exit_code = "none"

\* what run_mesh_closest_points works on
cpvars ==
  <<points, idx_vals, u_vals, v_vals, cp_vals, iter, retVal, closest_points>>

\* run_mesh_closest_points is not called
NoClosest ==
  /\ points = <<>>
  /\ idx_vals = <<>>
  /\ u_vals = <<>>
  /\ v_vals = <<>>
  /\ cp_vals = <<>>
  /\ iter = <<>>
  /\ retVal = <<>>
  /\ closest_points = <<>>

Depths == {Q(d) : d \in 1 .. MaxDepth}

Values == 1 .. MaxDepth

\* the corners of the right triangle with legs MaxCoord at the origin, the
\* middle of its hypotenuse (for an even MaxCoord), and two points beyond
\* the top and the left border of the image
Corners ==
  <<<<0, 0>>, <<MaxCoord, 0>>, <<0, MaxCoord>>,
    <<MaxCoord \div 2, MaxCoord \div 2>>, <<-2, 1>>, <<1, -2>>>>

\* faces over n vertices: every triple of the first n - 2, in one vertex
\* order, and one face with a repeated vertex on the last two
Faces(n) ==
  {f \in (1 .. n - 2) \X (1 .. n - 2) \X (1 .. n - 2) :
     f[1] < f[2] /\ f[2] < f[3]}
    \cup {<<n - 1, n, n>>}

\* the buffers of a run: <<width, height, T>>
Buffers == {<<MaxDim, MaxDim, "double">>, <<MaxDim - 1, MaxDim - 2, "int">>}

\* the initial content of img
Blank(type) == IF type = "double" THEN Inf ELSE Q(0)

\* a logged call: its shape, vertices, depths, attributes and fill value
Call(shape, v1, v2, v3, d1, d2, d3, a1, a2, a3, value) ==
  [shape |-> shape, v |-> <<v1, v2, v3>>, d |-> <<d1, d2, d3>>,
   a |-> <<a1, a2, a3>>, value |-> value]

Init ==
  /\ points_2d = Corners
  /\ attribs = [i \in 1 .. Len(Corners) |-> i]
  /\ triangles = Faces(Len(Corners))
  /\ \E b \in Buffers :
       /\ pixel_type = b[3]
       /\ depth_img = NewImage(b[1], b[2], Inf)
       /\ img = NewImage(b[1], b[2], Blank(b[3]))
  /\ faces_left = MaxCalls
  /\ hist = <<>>
  /\ NoMesh
  /\ NoBake
  /\ NoApp
  /\ NoClosest
  /\ NoRun

RenderDepth ==
  \E f \in triangles, d1 \in Depths, d2 \in Depths, d3 \in Depths :
    LET v1 == points_2d[f[1]]
        v2 == points_2d[f[2]]
        v3 == points_2d[f[3]]
    IN  /\ faces_left > 0
        /\ faces_left' = faces_left - 1
        /\ depth_img' = render_triangle(v1, v2, v3, d1, d2, d3, depth_img)
        /\ hist' = Append(hist, Call("depth", v1, v2, v3, d1, d2, d3,
                                     0, 0, 0, 0))
        /\ UNCHANGED <<points_2d, attribs, triangles, img, pixel_type>>
        /\ UNCHANGED meshvars
        /\ UNCHANGED bakevars
        /\ UNCHANGED appvars
        /\ UNCHANGED cpvars
        /\ UNCHANGED runvars

RenderAttrib ==
  \E f \in triangles, d1 \in Depths, d2 \in Depths, d3 \in Depths :
    LET v1 == points_2d[f[1]]
        v2 == points_2d[f[2]]
        v3 == points_2d[f[3]]
        a1 == attribs[f[1]]
        a2 == attribs[f[2]]
        a3 == attribs[f[3]]
        r  == render_triangle_attrib(v1, v2, v3, d1, d2, d3, a1, a2, a3,
                                     depth_img, img, pixel_type)
    IN  /\ faces_left > 0
        /\ faces_left' = faces_left - 1
        /\ depth_img' = r.depth_img
        /\ img' = r.img
        /\ hist' = Append(hist, Call("attrib", v1, v2, v3, d1, d2, d3,
                                     a1, a2, a3, 0))
        /\ UNCHANGED <<points_2d, attribs, triangles, pixel_type>>
        /\ UNCHANGED meshvars
        /\ UNCHANGED bakevars
        /\ UNCHANGED appvars
        /\ UNCHANGED cpvars
        /\ UNCHANGED runvars

RenderValue ==
  \E f \in triangles, d1 \in Depths, d2 \in Depths, d3 \in Depths,
     value \in Values :
    LET v1 == points_2d[f[1]]
        v2 == points_2d[f[2]]
        v3 == points_2d[f[3]]
        r  == render_triangle_value(v1, v2, v3, d1, d2, d3, value,
                                    depth_img, img)
    IN  /\ faces_left > 0
        /\ faces_left' = faces_left - 1
        /\ depth_img' = r.depth_img
        /\ img' = r.img
        /\ hist' = Append(hist, Call("value", v1, v2, v3, d1, d2, d3,
                                     0, 0, 0, value))
        /\ UNCHANGED <<points_2d, attribs, triangles, pixel_type>>
        /\ UNCHANGED meshvars
        /\ UNCHANGED bakevars
        /\ UNCHANGED appvars
        /\ UNCHANGED cpvars
        /\ UNCHANGED runvars

Next == RenderDepth \/ RenderAttrib \/ RenderValue

Spec == Init /\ [][Next]_vars

(***************************************************************************)
(* Single calls on arbitrary triangles: a triangle a, b, c with a at the   *)
(* pixel Anchor and b, c anywhere on a grid that overlaps the image and    *)
(* reaches past its top and left border, and the triangle b, a, d that     *)
(* mirrors it across the edge a-b.                                         *)
(***************************************************************************)
Grid == (-1 .. MaxCoord - 1) \X (-1 .. MaxCoord - 1)

Anchor == <<1, 1>>

Quads ==
  {<<Anchor, b, c, <<Anchor[1] + b[1] - c[1], Anchor[2] + b[2] - c[2]>>>> :
     b \in Grid \ {Anchor}, c \in Grid}

InitGeom ==
  /\ points_2d \in Quads
  /\ attribs = [i \in 1 .. 4 |-> i]
  /\ triangles = {<<1, 2, 3>>, <<2, 1, 4>>}
  /\ \E b \in Buffers :
       /\ pixel_type = b[3]
       /\ depth_img = NewImage(b[1], b[2], Inf)
       /\ img = NewImage(b[1], b[2], Blank(b[3]))
  /\ faces_left = 1
  /\ hist = <<>>
  /\ NoMesh
  /\ NoBake
  /\ NoApp
  /\ NoClosest
  /\ NoRun

SpecGeom == InitGeom /\ [][Next]_vars

(***************************************************************************)
(* What the logged calls mean, for the properties below.                   *)
(***************************************************************************)
\* the triangle of call c covers pixel p
CoversPx(c, p) == Covers(c.v[1], c.v[2], c.v[3], p[1], p[2])

\* the depth the triangle of call c has at pixel p
DepthAt(c, p) ==
  PlaneAt(PlaneOf(c.v[1], c.v[2], c.v[3], c.d[1], c.d[2], c.d[3]), p[1], p[2])

\* the value call c offers to the paired image at pixel p
ValueAt(c, p) ==
  IF c.shape = "attrib"
  THEN CastT(pixel_type,
             PlaneAt(PlaneOf(c.v[1], c.v[2], c.v[3],
                             Q(c.a[1]), Q(c.a[2]), Q(c.a[3])), p[1], p[2]))
  ELSE Q(c.value)

\* the calls so far whose triangle covers pixel p
Covering(p) == {i \in DOMAIN hist : CoversPx(hist[i], p)}

\* the least of a set of depths, +inf for the empty set
MinOf(ds) ==
  IF ds = {} THEN Inf ELSE CHOOSE d \in ds : \A e \in ds : ~Less(e, d)

PixelsOf(im) == DOMAIN im.data

\* one logged call applied to a pair of buffers
ApplyCall(c, b, type) ==
  IF c.shape = "depth"
  THEN [depth_img |-> render_triangle(c.v[1], c.v[2], c.v[3],
                                      c.d[1], c.d[2], c.d[3], b.depth_img),
        img |-> b.img]
  ELSE IF c.shape = "attrib"
  THEN render_triangle_attrib(c.v[1], c.v[2], c.v[3], c.d[1], c.d[2], c.d[3],
                              c.a[1], c.a[2], c.a[3], b.depth_img, b.img, type)
  ELSE render_triangle_value(c.v[1], c.v[2], c.v[3], c.d[1], c.d[2], c.d[3],
                             c.value, b.depth_img, b.img)

\* a sequence of calls composited into fresh buffers like those of this run
RECURSIVE Run(_)
Run(calls) ==
  IF calls = <<>>
  THEN [depth_img |-> NewImage(depth_img.width, depth_img.height, Inf),
        img |-> NewImage(img.width, img.height, Blank(pixel_type))]
  ELSE ApplyCall(calls[Len(calls)], Run(SubSeq(calls, 1, Len(calls) - 1)),
                 pixel_type)

\* every submission order of the calls so far
Orders ==
  LET n == Len(hist)
  IN  {[i \in 1 .. n |-> hist[f[i]]] :
         f \in {g \in [1 .. n -> 1 .. n] :
                  \A i, j \in 1 .. n : i # j => g[i] # g[j]}}

OnlyShapes(shapes) == \A i \in DOMAIN hist : hist[i].shape \in shapes

(***************************************************************************)
(* C1.  After any sequence of depth-only render_triangle calls into a      *)
(* depth buffer that started at +inf, every pixel holds the least depth    *)
(* any submitted triangle covering it has there, and every submission      *)
(* order of the same calls leaves the same buffer.                         *)
(***************************************************************************)
C1_DepthIsMinimum ==
  OnlyShapes({"depth"}) =>
    /\ \A p \in PixelsOf(depth_img) :
         depth_img.data[p] = MinOf({DepthAt(hist[i], p) : i \in Covering(p)})
    /\ \A o \in Orders : Run(o).depth_img = depth_img

\* a farther triangle (depth 2) was rendered, then a nearer one (depth 1) over
\* it, and the pixel holds 1
C1_Witness ==
  /\ Len(hist) = 2
  /\ OnlyShapes({"depth"})
  /\ \E p \in PixelsOf(depth_img) :
       /\ Covering(p) = {1, 2}
       /\ DepthAt(hist[1], p) = Q(2)
       /\ DepthAt(hist[2], p) = Q(1)
       /\ depth_img.data[p] = Q(1)

(***************************************************************************)
(* C2.  After any sequence of render_triangle calls, of any of the three   *)
(* shapes, a pixel that no submitted triangle covers still holds +inf in   *)
(* the depth buffer and its initial value in the paired buffer.            *)
(***************************************************************************)
C2_UncoveredKeepInitial ==
  \A p \in PixelsOf(depth_img) :
    Covering(p) = {} =>
      /\ depth_img.data[p] = Inf
      /\ img.data[p] = Blank(pixel_type)

\* calls of shapes (b) and (c) have been made, one pixel was written and
\* another, covered by neither triangle, holds its initial values
C2_Witness ==
  /\ Len(hist) = 2
  /\ hist[1].shape = "attrib"
  /\ hist[2].shape = "value"
  /\ \E p, q \in PixelsOf(depth_img) :
       /\ Covering(p) = {}
       /\ depth_img.data[p] = Inf
       /\ img.data[p] = Blank(pixel_type)
       /\ Covering(q) # {}
       /\ IsFinite(depth_img.data[q])

\* the call that made the last step
LastCall == hist'[Len(hist')]

(***************************************************************************)
(* C3.  In every render_triangle call, the stored depth of a pixel changes *)
(* only if the triangle covers the pixel and its depth there is strictly   *)
(* less than the stored one, and it then becomes exactly that depth; so    *)
(* the stored depth never increases, +inf gives way to any finite depth,   *)
(* and a triangle whose depth equals the stored depth leaves the pixel as  *)
(* it was, in the depth buffer and in the paired buffer.                   *)
(***************************************************************************)
C3_StrictDepthTest ==
  [][\A p \in PixelsOf(depth_img) :
       LET old == depth_img.data[p]
           new == depth_img'.data[p]
           d   == DepthAt(LastCall, p)
           hit == CoversPx(LastCall, p)
       IN  /\ ~Less(old, new)
           /\ new # old => hit /\ Less(d, old) /\ new = d
           /\ hit /\ Less(d, old) => new = d
           /\ hit /\ old = Inf /\ IsFinite(d) => new = d
           /\ hit /\ d = old => new = old /\ img'.data[p] = img.data[p]
    ]_vars

\* the second triangle lies over the first; at one pixel it is nearer and its
\* depth is stored, at another pixel the two are equally deep and the first
\* triangle's value is still in the paired buffer
C3_Witness ==
  /\ Len(hist) = 2
  /\ hist[2].shape = "value"
  /\ \E p, q \in PixelsOf(depth_img) :
       /\ Covering(p) = {1, 2}
       /\ Less(DepthAt(hist[2], p), DepthAt(hist[1], p))
       /\ depth_img.data[p] = DepthAt(hist[2], p)
       /\ Covering(q) = {1, 2}
       /\ DepthAt(hist[2], q) = DepthAt(hist[1], q)
       /\ hist[1].shape # "depth"
       /\ ValueAt(hist[1], q) # ValueAt(hist[2], q)
       /\ img.data[q] = ValueAt(hist[1], q)

(***************************************************************************)
(* C4.  In shapes (b) and (c) a call writes the paired buffer at exactly   *)
(* the pixels where it overwrites the depth buffer, with the attribute or  *)
(* the fill value of its triangle; so after any sequence of such calls a   *)
(* pixel with a finite depth holds the value of a triangle whose depth is  *)
(* the stored one, and any other pixel holds its initial value.            *)
(***************************************************************************)
C4_PairedWrittenWithDepth ==
  /\ [][LastCall.shape # "depth" =>
          \A p \in PixelsOf(img) :
            IF depth_img'.data[p] # depth_img.data[p]
            THEN img'.data[p] = ValueAt(LastCall, p)
            ELSE img'.data[p] = img.data[p]]_vars
  /\ [](OnlyShapes({"attrib", "value"}) =>
          \A p \in PixelsOf(img) :
            IF IsFinite(depth_img.data[p])
            THEN \E i \in Covering(p) :
                   /\ DepthAt(hist[i], p) = depth_img.data[p]
                   /\ ValueAt(hist[i], p) = img.data[p]
            ELSE img.data[p] = Blank(pixel_type))

\* an attribute triangle was drawn, then a nearer fill triangle over part of
\* it: one pixel holds the fill value, another still holds the attribute
C4_Witness ==
  /\ Len(hist) = 2
  /\ hist[1].shape = "attrib"
  /\ hist[2].shape = "value"
  /\ \E p, q \in PixelsOf(img) :
       /\ Covering(p) = {1, 2}
       /\ depth_img.data[p] = DepthAt(hist[2], p)
       /\ depth_img.data[p] # DepthAt(hist[1], p)
       /\ img.data[p] = ValueAt(hist[2], p)
       /\ img.data[p] # ValueAt(hist[1], p)
       /\ 1 \in Covering(q)
       /\ depth_img.data[q] = DepthAt(hist[1], q)
       /\ depth_img.data[q] # DepthAt(hist[2], q)
       /\ img.data[q] = ValueAt(hist[1], q)

\* the same triangles and depths, submitted through another call shape
AsShape(calls, shape) ==
  [i \in DOMAIN calls |-> [calls[i] EXCEPT !.shape = shape]]

Nearest(p) ==
  LET d == [i \in Covering(p) |-> DepthAt(hist[i], p)]
      m == MinOf({d[i] : i \in DOMAIN d})
  IN  {i \in DOMAIN d : d[i] = m}

Untied(p) ==
  \A i, j \in Nearest(p) : ValueAt(hist[i], p) = ValueAt(hist[j], p)

(***************************************************************************)
(* C6 as stated.  For shapes (b) and (c), the final content of the paired  *)
(* buffer is the same for every submission order of the triangles.         *)
(***************************************************************************)
C6_AnyOrderSamePaired ==
  OnlyShapes({"attrib", "value"}) =>
    \A o \in Orders : Run(o).img = img

(***************************************************************************)
(* C6 amended.  For shapes (b) and (c), the paired buffer holds at every   *)
(* covered pixel the value of the first submitted of the triangles nearest *)
(* there; so its content at a pixel is the same for every submission order *)
(* unless triangles equally near there offer different values.             *)
(***************************************************************************)
C6_NearestSurvives ==
  OnlyShapes({"attrib", "value"}) =>
    /\ \A p \in PixelsOf(img) :
         LET near == Nearest(p)
         IN  near # {} =>
               \E i \in near :
                 /\ \A j \in near : i <= j
                 /\ img.data[p] = ValueAt(hist[i], p)
    /\ \A o \in Orders :
         LET r == Run(o).img
         IN  \A p \in PixelsOf(img) : r.data[p] # img.data[p] => ~Untied(p)

\* two fill triangles: where the second is nearer its value is stored in
\* every order; where they are equally deep the first submitted one stays,
\* and the other order leaves another paired buffer
C6_Witness ==
  /\ Len(hist) = 2
  /\ OnlyShapes({"value"})
  /\ \E p, q \in PixelsOf(img) :
       /\ Covering(p) = {1, 2}
       /\ Less(DepthAt(hist[2], p), DepthAt(hist[1], p))
       /\ img.data[p] = ValueAt(hist[2], p)
       /\ Nearest(q) = {1, 2}
       /\ ~Untied(q)
       /\ img.data[q] = ValueAt(hist[1], q)
  /\ \E o \in Orders : Run(o).img # img

(***************************************************************************)
(* C7.  The triangle (0,0), (4,0), (0,4) with depths 1, 1, 1, rendered by  *)
(* one depth-only call into a 4x4 depth buffer of +inf, leaves depth 1 at  *)
(* every pixel (x, y) with x + y < 4 and +inf at every other pixel.        *)
(***************************************************************************)
C7_RightTriangle ==
  ( /\ Len(hist) = 1
    /\ hist[1].shape = "depth"
    /\ hist[1].v = <<<<0, 0>>, <<4, 0>>, <<0, 4>>>>
    /\ hist[1].d = <<Q(1), Q(1), Q(1)>>
    /\ depth_img.width = 4
    /\ depth_img.height = 4 ) =>
  \A p \in Pixels(4, 4) :
    depth_img.data[p] = IF p[1] + p[2] < 4 THEN Q(1) ELSE Inf

\* that call has been made: (3,0) and (0,3) hold 1, (3,1) and (3,3) hold +inf
C7_Witness ==
  /\ hist = <<Call("depth", <<0, 0>>, <<4, 0>>, <<0, 4>>, Q(1), Q(1), Q(1),
                   0, 0, 0, 0)>>
  /\ depth_img.width = 4
  /\ depth_img.height = 4
  /\ depth_img.data[<<3, 0>>] = Q(1)
  /\ depth_img.data[<<0, 3>>] = Q(1)
  /\ depth_img.data[<<3, 1>>] = Inf
  /\ depth_img.data[<<3, 3>>] = Inf

(***************************************************************************)
(* Plane geometry of a triangle, for the properties of its coverage.       *)
(***************************************************************************)
\* which side of the line p -> q the pixel <<x, y>> is on
Side(p, q, x, y) ==
  (q[1] - p[1]) * (y - p[2]) - (q[2] - p[2]) * (x - p[1])

\* the pixel lies in the closed triangle t: inside it or on its boundary
InClosed(t, x, y) ==
  LET s == Sign(Area2(t[1], t[2], t[3]))
  IN  /\ s * Side(t[1], t[2], x, y) >= 0
      /\ s * Side(t[2], t[3], x, y) >= 0
      /\ s * Side(t[3], t[1], x, y) >= 0

\* the pixel lies strictly inside the triangle t
InOpen(t, x, y) ==
  LET s == Sign(Area2(t[1], t[2], t[3]))
  IN  /\ s * Side(t[1], t[2], x, y) > 0
      /\ s * Side(t[2], t[3], x, y) > 0
      /\ s * Side(t[3], t[1], x, y) > 0

\* the pixel lies on the segment p q, strictly between its end points
OnOpenEdge(p, q, x, y) ==
  LET along == (x - p[1]) * (q[1] - p[1]) + (y - p[2]) * (q[2] - p[2])
      len2  == (q[1] - p[1]) * (q[1] - p[1]) + (q[2] - p[2]) * (q[2] - p[2])
  IN  Side(p, q, x, y) = 0 /\ along > 0 /\ along < len2

\* the vertices of face f
Tri(f) == <<points_2d[f[1]], points_2d[f[2]], points_2d[f[3]]>>

\* the pixels of the depth image a call on triangle t visits
Visited(t) ==
  LoopPixels(t[1], t[2], t[3], depth_img.width, depth_img.height)

\* the pixels of the depth image written so far
Written == {p \in PixelsOf(depth_img) : depth_img.data[p] # Inf}

\* one call has been made, on one of two triangles of non-zero area that lie
\* on opposite sides of the edge points_2d[1] - points_2d[2] they share
OneOfTwoAdjacent ==
  /\ Len(hist) = 1
  /\ triangles = {<<1, 2, 3>>, <<2, 1, 4>>}
  /\ hist[1].v \in {Tri(f) : f \in triangles}
  /\ Area2(points_2d[1], points_2d[2], points_2d[3]) # 0
  /\ Area2(points_2d[2], points_2d[1], points_2d[4]) # 0
  /\ Sign(Side(points_2d[1], points_2d[2], points_2d[3][1], points_2d[3][2]))
       = -Sign(Side(points_2d[1], points_2d[2],
                    points_2d[4][1], points_2d[4][2]))

\* the triangle of the pair that has not been rendered
OtherTri == CHOOSE t \in {Tri(f) : f \in triangles} : t # hist[1].v

(***************************************************************************)
(* C8 as stated.  For two triangles of non-zero area that share an edge    *)
(* and lie on opposite sides of it, the pixel sets render_triangle visits  *)
(* are disjoint and together hold every pixel of the image that lies in    *)
(* the union of the two (closed) triangles.                                *)
(***************************************************************************)
C8_DisjointAndWholeUnion ==
  OneOfTwoAdjacent =>
    LET other == Visited(OtherTri)
    IN  /\ Written \cap other = {}
        /\ \A p \in PixelsOf(depth_img) :
             InClosed(hist[1].v, p[1], p[2]) \/ InClosed(OtherTri, p[1], p[2])
               => p \in Written \cup other

(***************************************************************************)
(* C8 amended.  For two such triangles the pixel sets render_triangle      *)
(* visits are disjoint, and together they hold every pixel of the image    *)
(* that lies strictly inside one of the triangles or on the shared edge    *)
(* strictly between its end points: along the shared edge no pixel is      *)
(* rendered twice and none is left out.                                    *)
(***************************************************************************)
C8_SharedEdgeOnce ==
  OneOfTwoAdjacent =>
    LET other == Visited(OtherTri)
    IN  /\ Written \cap other = {}
        /\ \A p \in PixelsOf(depth_img) :
             \/ InOpen(hist[1].v, p[1], p[2])
             \/ InOpen(OtherTri, p[1], p[2])
             \/ OnOpenEdge(points_2d[1], points_2d[2], p[1], p[2])
             => p \in Written \cup other

\* a pixel on the shared edge, between its end points, is visited for one of
\* the two triangles, both of which reach into the image, and a pixel on the
\* outer boundary of their union is visited for neither
C8_Witness ==
  /\ OneOfTwoAdjacent
  /\ Written # {}
  /\ Visited(OtherTri) # {}
  /\ \E p, q \in PixelsOf(depth_img) :
       /\ OnOpenEdge(points_2d[1], points_2d[2], p[1], p[2])
       /\ (p \in Written) # (p \in Visited(OtherTri))
       /\ InClosed(OtherTri, q[1], q[2])
       /\ q \notin Written \cup Visited(OtherTri)

C10_PlaneThroughVertices ==
  \A k \in DOMAIN hist :
    LET c == hist[k]
    IN  Area2(c.v[1], c.v[2], c.v[3]) # 0 =>
          LET pl_d == PlaneOf(c.v[1], c.v[2], c.v[3], c.d[1], c.d[2], c.d[3])
              pl   == PlaneOf(c.v[1], c.v[2], c.v[3],
                              Q(c.a[1]), Q(c.a[2]), Q(c.a[3]))
          IN  \A i \in 1 .. 3 :
                /\ PlaneAt(pl_d, c.v[i][1], c.v[i][2]) = c.d[i]
                /\ c.shape = "attrib" =>
                     PlaneAt(pl, c.v[i][1], c.v[i][2]) = Q(c.a[i])

\* a call of shape (b) on a triangle of non-zero area whose depth plane is
\* tilted in x and in y; both planes pass through the second vertex
C10_Witness ==
  /\ Len(hist) = 1
  /\ hist[1].shape = "attrib"
  /\ Area2(hist[1].v[1], hist[1].v[2], hist[1].v[3]) # 0
  /\ LET c    == hist[1]
         pl_d == PlaneOf(c.v[1], c.v[2], c.v[3], c.d[1], c.d[2], c.d[3])
         pl   == PlaneOf(c.v[1], c.v[2], c.v[3],
                         Q(c.a[1]), Q(c.a[2]), Q(c.a[3]))
     IN  /\ pl_d.A # Q(0)
         /\ pl_d.B # Q(0)
         /\ c.v[2] # <<0, 0>>
         /\ PlaneAt(pl_d, c.v[2][1], c.v[2][2]) = c.d[2]
         /\ PlaneAt(pl, c.v[2][1], c.v[2][2]) = Q(c.a[2])

(***************************************************************************)
(* Cameras (vital::camera, vital::camera_perspective; their code is not in *)
(* this source tree).  A camera is its 3x4 matrix P with the image size;   *)
(* a perspective camera projects by P with the perspective division and    *)
(* has the third homogeneous coordinate as depth, any other camera here is *)
(* affine and projects by the first two rows of P.                         *)
(***************************************************************************)
\* row r of P applied to the 3D point X
RowDot(P, r, X) ==
  P[r][1] * X[1] + P[r][2] * X[2] + P[r][3] * X[3] + P[r][4]

\* camera->project(X), a 2D point in doubles
project(cam, X) ==
  IF cam.perspective
  THEN <<Div(Q(RowDot(cam.P, 1, X)), Q(RowDot(cam.P, 3, X))),
         Div(Q(RowDot(cam.P, 2, X)), Q(RowDot(cam.P, 3, X)))>>
  ELSE <<Q(RowDot(cam.P, 1, X)), Q(RowDot(cam.P, 2, X))>>

\* camera->depth(X)
depth(cam, X) == Q(RowDot(cam.P, 3, X))

\* a projected point on the pixel grid of the scan converter
AsGrid(pt) == <<Trunc(pt[1]), Trunc(pt[2])>>

(***************************************************************************)
(* render_mesh_depth_map, render_mesh_height_map, depth_map_to_height_map. *)
(* Each render_mesh_* operator gives the image returned and the messages   *)
(* logged.                                                                 *)
(***************************************************************************)
ErrNotTriangular == "The mesh has to be triangular."

\* a non-triangular mesh that is rejected without a message
Report_Silent(msg) == <<>>

\* LOG_ERROR(logger, msg): one more line for the logger
Report(msg) == <<msg>>

\* the test that guards the face loop, taken to let every mesh through
IsTriangular_Any(m) == TRUE

\* mesh->faces().regularity() == 3
IsTriangular(m) == m.regularity = 3

\* points_2d[i] = camera->project(vertices[i])
ProjectAll(m, cam) ==
  [i \in DOMAIN m.vertices |-> AsGrid(project(cam, m.vertices[i]))]

\* the key -1 / depth without its sign
DepthKey_Unsigned(cam, X) == Div(Q(1), depth(cam, X))

\* d = -1.0 / camera->depth(vertex)
DepthKey(cam, X) == Div(Q(-1), depth(cam, X))

\* world Z itself as the key
HeightKey_Positive(X) == Q(X[3])

\* h = -vertex(2)
HeightKey(X) == Neg(Q(X[3]))

\* the face loop: faces 1..n of the mesh composited into image zb with the
\* per-vertex keys key[i]
RECURSIVE FaceLoop(_, _, _, _, _)
FaceLoop(m, pts, key, zb, n) ==
  IF n = 0 THEN zb
  ELSE LET f == m.faces[n]
       IN  render_triangle(pts[f[1]], pts[f[2]], pts[f[3]],
                           key[f[1]], key[f[2]], key[f[3]],
                           FaceLoop(m, pts, key, zb, n - 1))

\* a depth map that keeps the keys: no mapping back after the face loop
FromKeys_Keep(zb) == zb

\* transform_image(zbuffer, d -> isinf(d) ? d : -1.0 / d)
FromKeys(zb) ==
  [zb EXCEPT !.data =
     [p \in DOMAIN zb.data |->
        IF IsInf(zb.data[p]) THEN zb.data[p] ELSE Div(Q(-1), zb.data[p])]]

\* transform_image(height_map, h -> isinf(h) ? h : -h)
Negated(hm) ==
  [hm EXCEPT !.data =
     [p \in DOMAIN hm.data |->
        IF IsInf(hm.data[p]) THEN hm.data[p] ELSE Neg(hm.data[p])]]

render_mesh_depth_map(m, cam) ==
  LET zbuffer == NewImage(cam.width, cam.height, Inf)
  IN  IF IsTriangular(m)
      THEN [image |->
              FromKeys(FaceLoop(m, ProjectAll(m, cam),
                                [i \in DOMAIN m.vertices |->
                                   DepthKey(cam, m.vertices[i])],
                                zbuffer, Len(m.faces))),
            log |-> <<>>]
      ELSE [image |-> zbuffer, log |-> Report(ErrNotTriangular)]

\* the leading 3x3 block of P
Block3(P) == [r \in 1 .. 3 |-> [c \in 1 .. 3 |-> P[r][c]]]

Nxt(k) == (k % 3) + 1

Det3(M) ==
  M[1][1] * (M[2][2] * M[3][3] - M[2][3] * M[3][2])
  - M[1][2] * (M[2][1] * M[3][3] - M[2][3] * M[3][1])
  + M[1][3] * (M[2][1] * M[3][2] - M[2][2] * M[3][1])

\* Eigen's inverse() of a 3x3 matrix: the cofactors over the determinant
Inverse3(M) ==
  [i \in 1 .. 3 |->
     [j \in 1 .. 3 |->
        Div(Q(M[Nxt(j)][Nxt(i)] * M[Nxt(Nxt(j))][Nxt(Nxt(i))]
              - M[Nxt(j)][Nxt(Nxt(i))] * M[Nxt(Nxt(j))][Nxt(i)]),
            Q(Det3(M)))]]

Dot3(a, b) == Add(Add(Mul(a[1], b[1]), Mul(a[2], b[2])), Mul(a[3], b[3]))

\* the third column of the inverse instead of its third row
DirectionOf_Column(P) ==
  LET inv == Inverse3(Block3(P))
  IN  <<inv[1][3], inv[2][3], inv[3][3]>>

\* v = P.block<3, 3>(0, 0).inverse().row(2)
DirectionOf(P) == Inverse3(Block3(P))[3]

\* o = v.dot(-P.col(3))
OffsetOf(P, v) ==
  Dot3(v, <<Neg(Q(P[1][4])), Neg(Q(P[2][4])), Neg(Q(P[3][4]))>>)

\* the conversion of a pixel without the test for an infinite depth
HeightAt_NoInfTest(v, o, d, i, j) ==
  Add(Mul(d, Dot3(v, <<Q(i), Q(j), Q(1)>>)), o)

\* height_map(i, j) = isinf(d) ? d : d * v.dot(pt) + o
HeightAt(v, o, d, i, j) ==
  IF IsInf(d) THEN d ELSE Add(Mul(d, Dot3(v, <<Q(i), Q(j), Q(1)>>)), o)

\* the height map written for depth_map: set_size, then every pixel
depth_map_to_height_map(cam, depth_map) ==
  LET v == DirectionOf(cam.P)
      o == OffsetOf(cam.P, v)
  IN  [width |-> depth_map.width, height |-> depth_map.height,
       data |-> [p \in Pixels(depth_map.width, depth_map.height) |->
                   HeightAt(v, o, depth_map.data[p], p[1], p[2])]]

\* a height map that rasterizes world Z also under a perspective camera
UsesConverter_Never(cam) == FALSE

\* std::dynamic_pointer_cast<vital::camera_perspective>(camera) is not null
UsesConverter(cam) == cam.perspective

render_mesh_height_map(m, cam) ==
  LET height_map == NewImage(cam.width, cam.height, Inf)
  IN  IF IsTriangular(m)
      THEN IF UsesConverter(cam)
           THEN LET dm == render_mesh_depth_map(m, cam)
                IN  [image |-> depth_map_to_height_map(cam, dm.image),
                     log |-> dm.log]
           ELSE [image |->
                   Negated(FaceLoop(m, ProjectAll(m, cam),
                                    [i \in DOMAIN m.vertices |->
                                       HeightKey(m.vertices[i])],
                                    height_map, Len(m.faces))),
                 log |-> <<>>]
      ELSE [image |-> height_map, log |-> Report(ErrNotTriangular)]

(***************************************************************************)
(* Whole renders of small meshes.  A mesh has up to MaxCalls faces, each   *)
(* with three (or, for a mesh that is not triangular, four) vertices of    *)
(* its own, placed so that they project onto the points of Corners.        *)
(***************************************************************************)
\* perspective cameras looking along +Z from the origin and from one unit
\* behind it, and an affine camera looking down the Z axis
MeshCameras ==
  {[perspective |-> TRUE,
    P |-> <<<<1, 0, 0, 0>>, <<0, 1, 0, 0>>, <<0, 0, 1, tz>>>>,
    width |-> MaxDim, height |-> MaxDim] : tz \in 0 .. 1}
  \cup
  {[perspective |-> FALSE,
    P |-> <<<<1, 0, 0, 0>>, <<0, 1, 0, 0>>, <<0, 0, 0, 1>>>>,
    width |-> MaxDim, height |-> MaxDim]}

\* the 3D point at world height z that cam projects onto the 2D point c
Lift(cam, c, z) ==
  IF cam.perspective
  THEN <<c[1] * (z + cam.P[3][4]), c[2] * (z + cam.P[3][4]), z>>
  ELSE <<c[1], c[2], z>>

\* one face: the indices of its corners in Corners and their heights
FaceChoices(k) ==
  {<<f, z>> : f \in IF k = 3 THEN Faces(Len(Corners)) ELSE {<<1, 2, 4, 3>>},
              z \in [1 .. k -> 1 .. MaxDepth]}

\* the mesh of regularity k made of the chosen faces
MeshOf(cam, k, chosen) ==
  [vertices |->
     [i \in 1 .. k * Len(chosen) |->
        LET c == chosen[((i - 1) \div k) + 1]
            j == ((i - 1) % k) + 1
        IN  Lift(cam, Corners[c[1][j]], c[2][j])],
   faces |->
     [n \in 1 .. Len(chosen) |-> [j \in 1 .. k |-> k * (n - 1) + j]],
   regularity |-> k]

Meshes(cam) ==
  {MeshOf(cam, 3, ch) :
     ch \in UNION {[1 .. n -> FaceChoices(3)] : n \in 0 .. MaxCalls}}
  \cup {MeshOf(cam, 4, ch) : ch \in [1 .. 1 -> FaceChoices(4)]}

InitMesh ==
  /\ points_2d = <<>>
  /\ attribs = <<>>
  /\ triangles = {}
  /\ pixel_type = "double"
  /\ depth_img = NewImage(0, 0, Inf)
  /\ img = NewImage(0, 0, Inf)
  /\ faces_left = 0
  /\ hist = <<>>
  /\ camera \in MeshCameras
  /\ mesh \in Meshes(camera)
  /\ log = <<>>
  /\ returned = [by |-> "none", image |-> NewImage(0, 0, Inf)]
  /\ in_depth_map = NewImage(0, 0, Inf)
  /\ out_height_map = NewImage(0, 0, Inf)
  /\ NoBake
  /\ NoApp
  /\ NoClosest
  /\ NoRun

RenderMeshDepthMap ==
  LET r == render_mesh_depth_map(mesh, camera)
  IN  /\ returned.by = "none"
      /\ camera.perspective
      /\ returned' = [by |-> "render_mesh_depth_map", image |-> r.image]
      /\ log' = log \o r.log
      /\ UNCHANGED <<points_2d, attribs, triangles, depth_img, img,
                     pixel_type, faces_left, hist, mesh, camera,
                     in_depth_map, out_height_map>>
      /\ UNCHANGED bakevars
      /\ UNCHANGED appvars
      /\ UNCHANGED cpvars
      /\ UNCHANGED runvars

RenderMeshHeightMap ==
  LET r == render_mesh_height_map(mesh, camera)
  IN  /\ returned.by = "none"
      /\ camera.width > 0
      /\ returned' = [by |-> "render_mesh_height_map", image |-> r.image]
      /\ log' = log \o r.log
      /\ UNCHANGED <<points_2d, attribs, triangles, depth_img, img,
                     pixel_type, faces_left, hist, mesh, camera,
                     in_depth_map, out_height_map>>
      /\ UNCHANGED bakevars
      /\ UNCHANGED appvars
      /\ UNCHANGED cpvars
      /\ UNCHANGED runvars

NextMesh == RenderMeshDepthMap \/ RenderMeshHeightMap

SpecMesh == InitMesh /\ [][NextMesh]_vars

(***************************************************************************)
(* Conversions of small depth buffers under perspective cameras with a     *)
(* general invertible leading block.                                       *)
(***************************************************************************)
MaxBuf == 2

\* leading 3x3 blocks: the identity, two calibration matrices with a
\* principal point, a camera rotated about X, and a sheared one
Blocks ==
  {<<<<1, 0, 0>>, <<0, 1, 0>>, <<0, 0, 1>>>>,
   <<<<1, 0, 2>>, <<0, 1, 2>>, <<0, 0, 1>>>>,
   <<<<2, 0, 1>>, <<0, 2, 1>>, <<0, 0, 1>>>>,
   <<<<1, 0, 0>>, <<0, 0, 1>>, <<0, -1, 0>>>>,
   <<<<1, 1, 0>>, <<0, 1, 0>>, <<1, 0, 1>>>>}

\* last columns of P
Columns == {<<0, 0, 0>>, <<0, 0, 1>>, <<1, -1, 2>>}

ConvCameras ==
  {[perspective |-> TRUE,
    P |-> [r \in 1 .. 3 |-> <<M[r][1], M[r][2], M[r][3], t[r]>>],
    width |-> MaxDim, height |-> MaxDim] : M \in Blocks, t \in Columns}

\* depth buffers: every pixel a depth or the sentinel +inf
DepthMaps ==
  {[width |-> w, height |-> MaxBuf, data |-> f] :
     w \in {MaxBuf},
     f \in [Pixels(MaxBuf, MaxBuf) -> Depths \cup {Inf}]}
  \cup
  {[width |-> 1, height |-> MaxBuf + 1, data |-> f] :
     f \in [Pixels(1, MaxBuf + 1) -> Depths \cup {Inf}]}

InitConv ==
  /\ points_2d = <<>>
  /\ attribs = <<>>
  /\ triangles = {}
  /\ pixel_type = "double"
  /\ depth_img = NewImage(0, 0, Inf)
  /\ img = NewImage(0, 0, Inf)
  /\ faces_left = 0
  /\ hist = <<>>
  /\ mesh = [vertices |-> <<>>, faces |-> <<>>, regularity |-> 3]
  /\ camera \in ConvCameras
  /\ log = <<>>
  /\ returned = [by |-> "none", image |-> NewImage(0, 0, Inf)]
  /\ in_depth_map \in DepthMaps
  /\ out_height_map \in {NewImage(0, 0, Inf), NewImage(MaxBuf, 1, Q(0))}
  /\ NoBake
  /\ NoApp
  /\ NoClosest
  /\ NoRun

DepthMapToHeightMap ==
  /\ returned.by = "none"
  /\ out_height_map' = depth_map_to_height_map(camera, in_depth_map)
  /\ returned' = [by |-> "depth_map_to_height_map",
                  image |-> out_height_map']
  /\ UNCHANGED <<points_2d, attribs, triangles, depth_img, img, pixel_type,
                 faces_left, hist, mesh, camera, log, in_depth_map>>
  /\ UNCHANGED bakevars
  /\ UNCHANGED appvars
  /\ UNCHANGED cpvars
  /\ UNCHANGED runvars

SpecConv == InitConv /\ [][DepthMapToHeightMap]_vars

(***************************************************************************)
(* C11: for a mesh whose regularity is not 3, render_mesh_depth_map and    *)
(* render_mesh_height_map (under a perspective and under any other camera) *)
(* return a buffer of the camera's width and height in which every pixel   *)
(* is +infinity; no face of the mesh is rendered into it.                  *)
(***************************************************************************)
C11_NonTriangularAllInf ==
  (returned.by # "none" /\ mesh.regularity # 3) =>
     /\ returned.image.width = camera.width
     /\ returned.image.height = camera.height
     /\ \A p \in Pixels(camera.width, camera.height) :
          returned.image.data[p] = Inf

\* a height map was returned for a quad mesh whose quad projects onto pixels
C11_Witness ==
  /\ returned.by = "render_mesh_height_map"
  /\ mesh.regularity = 4
  /\ Len(mesh.faces) = 1
  /\ camera.perspective
  /\ returned.image = NewImage(MaxDim, MaxDim, Inf)

(***************************************************************************)
(* C12: a non-triangular mesh is reported.  What the caller receives as    *)
(* the return value is the same blank buffer that a triangular mesh        *)
(* covering no pixel yields; the two outcomes differ in the logger alone:  *)
(* the message "The mesh has to be triangular." is logged exactly when the *)
(* regularity is not 3.                                                    *)
(***************************************************************************)
\* triangular meshes that cover no pixel: no face, or one degenerate face
NoPixelMeshes(cam) ==
  {MeshOf(cam, 3, <<>>),
   MeshOf(cam, 3, <<<<<<5, 6, 6>>, [j \in 1 .. 3 |-> 1]>>>>)}

\* what the successful render of such a mesh returns
EmptyRenders(cam) ==
  {(IF returned.by = "render_mesh_depth_map"
    THEN render_mesh_depth_map(m, cam)
    ELSE render_mesh_height_map(m, cam)).image : m \in NoPixelMeshes(cam)}

C12_ReportedInLogOnly ==
  returned.by # "none" =>
     /\ (mesh.regularity # 3) <=> (log = <<ErrNotTriangular>>)
     /\ (mesh.regularity = 3) <=> (log = <<>>)
     /\ mesh.regularity # 3 => EmptyRenders(camera) = {returned.image}

\* the claim as stated: the returned outcome differs from an empty render
C12_ReturnDistinguishable ==
  (returned.by # "none" /\ mesh.regularity # 3) =>
     returned.image \notin EmptyRenders(camera)

\* a depth map was returned for a quad mesh and the error was logged
C12_Witness ==
  /\ returned.by = "render_mesh_depth_map"
  /\ mesh.regularity = 4
  /\ log = <<ErrNotTriangular>>
  /\ returned.image \in EmptyRenders(camera)

(***************************************************************************)
(* Faces of the mesh as the renders see them.                              *)
(***************************************************************************)
\* the projected corners of face n
FacePts(n) ==
  LET pts == ProjectAll(mesh, camera)
      f == mesh.faces[n]
  IN  <<pts[f[1]], pts[f[2]], pts[f[3]]>>

\* the faces whose projection covers pixel p
FacesOver(p) ==
  {n \in DOMAIN mesh.faces :
     Covers(FacePts(n)[1], FacePts(n)[2], FacePts(n)[3], p[1], p[2])}

\* the camera depths, and the world heights, of the corners of face n
FaceDepths(n) == {depth(camera, mesh.vertices[mesh.faces[n][j]]) : j \in 1 .. 3}
FaceHeights(n) == {Q(mesh.vertices[mesh.faces[n][j]][3]) : j \in 1 .. 3}

TheOne(S) == CHOOSE x \in S : TRUE

\* the greatest of a set of heights
MaxOf(hs) == CHOOSE h \in hs : \A e \in hs : ~Less(h, e)

(***************************************************************************)
(* C13: render_mesh_depth_map composites every face with the key           *)
(* -1/camera.depth(vertex) and then replaces every finite key d by -1/d.   *)
(* For a mesh whose faces each have one constant positive camera depth, a  *)
(* pixel covered by some face ends with the smallest true depth among the  *)
(* faces covering it, and a pixel covered by no face holds +infinity.      *)
(***************************************************************************)
ConstantDepthFaces ==
  \A n \in DOMAIN mesh.faces :
     /\ Cardinality(FaceDepths(n)) = 1
     /\ Less(Q(0), TheOne(FaceDepths(n)))

C13_SmallestTrueDepth ==
  (/\ returned.by = "render_mesh_depth_map"
   /\ mesh.regularity = 3
   /\ ConstantDepthFaces) =>
     \A p \in Pixels(camera.width, camera.height) :
        returned.image.data[p] =
          MinOf({TheOne(FaceDepths(n)) : n \in FacesOver(p)})

\* two faces of different constant depth cover one pixel, which holds the
\* depth of the nearer, second face; another pixel is covered by no face
C13_Witness ==
  /\ returned.by = "render_mesh_depth_map"
  /\ mesh.regularity = 3
  /\ ConstantDepthFaces
  /\ \E p, q \in Pixels(camera.width, camera.height) :
       /\ FacesOver(p) = {1, 2}
       /\ Less(TheOne(FaceDepths(2)), TheOne(FaceDepths(1)))
       /\ returned.image.data[p] = TheOne(FaceDepths(2))
       /\ FacesOver(q) = {}
       /\ returned.image.data[q] = Inf

(***************************************************************************)
(* C14: under a camera that is not a perspective camera,                   *)
(* render_mesh_height_map uses the negated world Z of the vertices as the  *)
(* depth-test key and as the value, and finally negates the finite pixels. *)
(* For a mesh whose faces each have one constant world Z, a pixel covered  *)
(* by some face ends with the largest world Z among the faces covering it, *)
(* and a pixel covered by no face holds +infinity.                         *)
(***************************************************************************)
ConstantHeightFaces ==
  \A n \in DOMAIN mesh.faces : Cardinality(FaceHeights(n)) = 1

C14_LargestWorldZ ==
  (/\ returned.by = "render_mesh_height_map"
   /\ ~camera.perspective
   /\ mesh.regularity = 3
   /\ ConstantHeightFaces) =>
     \A p \in Pixels(camera.width, camera.height) :
        returned.image.data[p] =
          IF FacesOver(p) = {} THEN Inf
          ELSE MaxOf({TheOne(FaceHeights(n)) : n \in FacesOver(p)})

\* two faces of different constant height cover one pixel, which holds the
\* height of the higher, second face; another pixel is covered by no face
C14_Witness ==
  /\ returned.by = "render_mesh_height_map"
  /\ ~camera.perspective
  /\ mesh.regularity = 3
  /\ ConstantHeightFaces
  /\ \E p, q \in Pixels(camera.width, camera.height) :
       /\ FacesOver(p) = {1, 2}
       /\ Less(TheOne(FaceHeights(1)), TheOne(FaceHeights(2)))
       /\ returned.image.data[p] = TheOne(FaceHeights(2))
       /\ FacesOver(q) = {}
       /\ returned.image.data[q] = Inf

(***************************************************************************)
(* C15: under a perspective camera the result of render_mesh_height_map    *)
(* is, pixel for pixel, depth_map_to_height_map applied to the camera and  *)
(* to the result of render_mesh_depth_map for the same mesh and camera.    *)
(***************************************************************************)
C15_HeightIsConvertedDepth ==
  (returned.by = "render_mesh_height_map" /\ camera.perspective) =>
     LET depth_map == render_mesh_depth_map(mesh, camera).image
         height_map == depth_map_to_height_map(camera, depth_map)
     IN  /\ returned.image.width = height_map.width
         /\ returned.image.height = height_map.height
         /\ \A p \in Pixels(camera.width, camera.height) :
              returned.image.data[p] = height_map.data[p]

\* a height map under a perspective camera with a rendered pixel whose
\* height differs from its depth
C15_Witness ==
  /\ returned.by = "render_mesh_height_map"
  /\ camera.perspective
  /\ mesh.regularity = 3
  /\ \E p \in Pixels(camera.width, camera.height) :
       /\ IsFinite(returned.image.data[p])
       /\ returned.image.data[p]
            # render_mesh_depth_map(mesh, camera).image.data[p]

(***************************************************************************)
(* C16: depth_map_to_height_map produces a height buffer with exactly the  *)
(* width and height of the input depth buffer; a pixel whose depth is      *)
(* infinite holds that same infinite value; a pixel whose depth is finite  *)
(* holds a value that depends only on that pixel's depth and coordinates   *)
(* (any other depth buffer of the same size with the same depth at the     *)
(* pixel converts to the same height there); the input depth buffer is not *)
(* modified.                                                               *)
(***************************************************************************)
SameSizeMaps(dm) ==
  {o \in DepthMaps : o.width = dm.width /\ o.height = dm.height}

C16_Converted ==
  returned.by = "depth_map_to_height_map" =>
     /\ out_height_map.width = in_depth_map.width
     /\ out_height_map.height = in_depth_map.height
     /\ DOMAIN out_height_map.data
          = Pixels(in_depth_map.width, in_depth_map.height)
     /\ \A p \in DOMAIN in_depth_map.data :
          IF IsInf(in_depth_map.data[p])
          THEN out_height_map.data[p] = in_depth_map.data[p]
          ELSE \A o \in SameSizeMaps(in_depth_map) :
                 o.data[p] = in_depth_map.data[p] =>
                    depth_map_to_height_map(camera, o).data[p]
                      = out_height_map.data[p]

C16_SameSizeInfKeptLocal ==
  /\ [](C16_Converted)
  /\ [][in_depth_map' = in_depth_map]_vars

\* a buffer with an infinite and a finite depth was converted into an output
\* buffer of the same size, the finite depth to a height different from it,
\* under a camera for which the direction is orthogonal to a pixel
C16_Witness ==
  /\ returned.by = "depth_map_to_height_map"
  /\ out_height_map.width = 1
  /\ out_height_map.height = MaxBuf + 1
  /\ in_depth_map.data[<<0, 0>>] = Inf
  /\ out_height_map.data[<<0, 0>>] = Inf
  /\ Dot3(DirectionOf(camera.P), <<Q(0), Q(0), Q(1)>>) = Q(0)
  /\ IsFinite(in_depth_map.data[<<0, 1>>])
  /\ out_height_map.data[<<0, 1>>] # in_depth_map.data[<<0, 1>>]

(***************************************************************************)
(* C17: in depth_map_to_height_map, with M the leading 3x3 block of the    *)
(* camera's projection matrix P, the direction used is the third row of    *)
(* the inverse of M, that is the vector v with v * M = (0, 0, 1), and the  *)
(* offset is o = v . (-P[:,3]); for each pixel (i, j) with finite depth d  *)
(* the height written is d * (v . [i, j, 1]) + o.                          *)
(***************************************************************************)
\* the row vector v times the matrix M
RowTimes(v, M) ==
  [c \in 1 .. 3 |->
     Dot3(v, <<Q(M[1][c]), Q(M[2][c]), Q(M[3][c])>>)]

\* the matrix Minv times the column vector w
TimesColumn(Minv, w) ==
  [r \in 1 .. 3 |-> Dot3(Minv[r], <<Q(w[1]), Q(w[2]), Q(w[3])>>)]

\* every finite depth was converted with the direction v
ConvertedWith(v) ==
  LET o == Dot3(v, <<Q(-camera.P[1][4]), Q(-camera.P[2][4]),
                     Q(-camera.P[3][4])>>)
  IN  \A p \in DOMAIN in_depth_map.data :
         IsFinite(in_depth_map.data[p]) =>
            out_height_map.data[p]
              = Add(Mul(in_depth_map.data[p],
                        Dot3(v, <<Q(p[1]), Q(p[2]), Q(1)>>)), o)

C17_ThirdRowOfInverse ==
  returned.by = "depth_map_to_height_map" =>
     \E v \in {Inverse3(Block3(camera.P))[r] : r \in 1 .. 3} :
        /\ RowTimes(v, Block3(camera.P)) = <<Q(0), Q(0), Q(1)>>
        /\ ConvertedWith(v)

\* the claim as stated: the direction is the inverse of M applied to the
\* third row of M
C17_InverseTimesRow ==
  returned.by = "depth_map_to_height_map" =>
     ConvertedWith(TimesColumn(Inverse3(Block3(camera.P)),
                               Block3(camera.P)[3]))

\* a finite depth was converted under a camera whose leading block is not
\* the identity and whose last column is not zero
C17_Witness ==
  /\ returned.by = "depth_map_to_height_map"
  /\ Block3(camera.P) = <<<<1, 1, 0>>, <<0, 1, 0>>, <<1, 0, 1>>>>
  /\ camera.P[3][4] = 2
  /\ \E p \in DOMAIN in_depth_map.data :
       /\ p # <<0, 0>>
       /\ IsFinite(in_depth_map.data[p])
       /\ IsFinite(out_height_map.data[p])
       /\ out_height_map.data[p] # in_depth_map.data[p]

(***************************************************************************)
(* Texture Baker: texture_mesh of the texture-from-pointcloud applet.      *)
(* mesh::texture_map, the image class and the nearest-neighbour search are *)
(* not in this source tree.                                                *)
(***************************************************************************)
\* the texture image size (500 x 500 in the applet)
img_width == 4
img_height == 3

img_dx == Div(Q(1), Q(img_width))
img_dy == Div(Q(1), Q(img_height))

\* a <= b on doubles
Leq(a, b) == ~IsNaN(a) /\ ~IsNaN(b) /\ ~Less(b, a)

\* std::min(a, b), std::max(a, b)
MinD(a, b) == IF Less(b, a) THEN b ELSE a
MaxD(a, b) == IF Less(a, b) THEN b ELSE a

\* mesh::texture_map(tri, u, v): the texture coordinate at the barycentric
\* coordinate (u, v) of face tri, with the weights 1-u-v, u, v on the face's
\* first, second and third corner
texture_map(m, tri, u, v) ==
  LET t == m.tex_coords[tri]
  IN  [c \in 1 .. 2 |->
         Add(Add(Mul(Q(1 - u - v), t[1][c]), Mul(Q(u), t[2][c])),
             Mul(Q(v), t[3][c]))]

\* x_t = {0, 1, 0}, y_t = {1, 0, 0}: the texture coordinates of the loop
tx_coords(m, i) ==
  <<texture_map(m, i, 0, 1), texture_map(m, i, 1, 0), texture_map(m, i, 0, 0)>>

\* the bounding box the loops run over
x_min(tx) == MinD(tx[3][1], MinD(tx[2][1], MinD(tx[1][1], Q(1))))
y_min(tx) == MinD(tx[3][2], MinD(tx[2][2], MinD(tx[1][2], Q(1))))
x_max(tx) == MaxD(tx[3][1], MaxD(tx[2][1], MaxD(tx[1][1], Q(0))))
y_max(tx) == MaxD(tx[3][2], MaxD(tx[2][2], MaxD(tx[1][2], Q(0))))

\* for (double x = lo; x < hi; x += step): the values x takes
RECURSIVE Ramp(_, _, _)
Ramp(lo, hi, step) ==
  IF Less(lo, hi) THEN <<lo>> \o Ramp(Add(lo, step), hi, step) ELSE <<>>

\* a barycentric() that answers the corner (0, 0) for a degenerate triangle
barycentric_ZeroOnDegenerate(u, v, x, y, pts) ==
  LET denom == Add(Mul(Sub(pts[2][2], pts[3][2]), Sub(pts[1][1], pts[3][1])),
                   Mul(Sub(pts[3][1], pts[2][1]), Sub(pts[1][2], pts[3][2])))
  IN  IF denom = Q(0)
      THEN [u |-> Q(0), v |-> Q(0)]
      ELSE [u |-> Div(Add(Mul(Sub(pts[2][2], pts[3][2]), Sub(x, pts[3][1])),
                          Mul(Sub(pts[3][1], pts[2][1]), Sub(y, pts[3][2]))),
                      denom),
            v |-> Div(Add(Mul(Sub(pts[3][2], pts[1][2]), Sub(x, pts[3][1])),
                          Mul(Sub(pts[1][1], pts[3][1]), Sub(y, pts[3][2]))),
                      denom)]

\* barycentric(u, v, x, y, pts): u and v after the call
barycentric(u, v, x, y, pts) ==
  LET denom == Add(Mul(Sub(pts[2][2], pts[3][2]), Sub(pts[1][1], pts[3][1])),
                   Mul(Sub(pts[3][1], pts[2][1]), Sub(pts[1][2], pts[3][2])))
  IN  IF denom = Q(0)
      THEN [u |-> u, v |-> v]
      ELSE [u |-> Div(Add(Mul(Sub(pts[2][2], pts[3][2]), Sub(x, pts[3][1])),
                          Mul(Sub(pts[3][1], pts[2][1]), Sub(y, pts[3][2]))),
                      denom),
            v |-> Div(Add(Mul(Sub(pts[3][2], pts[1][2]), Sub(x, pts[3][1])),
                          Mul(Sub(pts[1][1], pts[3][1]), Sub(y, pts[3][2]))),
                      denom)]

\* the acceptance test without the bound on u + v
Accepts_NoSum(u, v) ==
  Leq(Q(0), u) /\ Leq(u, Q(1)) /\ Leq(Q(0), v) /\ Leq(v, Q(1))

\* 0 <= u && u <= 1 && 0 <= v && v <= 1 && u + v <= 1
Accepts(u, v) ==
  /\ Leq(Q(0), u) /\ Leq(u, Q(1))
  /\ Leq(Q(0), v) /\ Leq(v, Q(1))
  /\ Leq(Add(u, v), Q(1))

\* the three weights, on corners[0], corners[1], corners[2]
Weights(u, v) == <<Sub(Sub(Q(1), u), v), v, u>>

\* the weighted sum of three 3D points
Blend(w, corners) ==
  [c \in 1 .. 3 |->
     Add(Add(Mul(w[1], Q(corners[1][c])), Mul(w[2], Q(corners[2][c]))),
         Mul(w[3], Q(corners[3][c])))]

\* u on corners[1] and v on corners[2]
BackProject_Swapped(u, v, corners) ==
  Blend(<<Sub(Sub(Q(1), u), v), u, v>>, corners)

\* (1. - u - v)*corners[0] + v*corners[1] + u*corners[2]
BackProject(u, v, corners) == Blend(Weights(u, v), corners)

\* the pixel index without the vertical flip
PixelIndex_NoFlip(x, y) ==
  <<Trunc(Mul(x, Q(img_width))), Trunc(Mul(y, Q(img_height)))>>

\* point_2i(int(x*img_width), int((1. - y)*img_height))
PixelIndex(x, y) ==
  <<Trunc(Mul(x, Q(img_width))),
    Trunc(Mul(Sub(Q(1), y), Q(img_height)))>>

\* corners: the vertices of face i
CornersOf(m, i) == [k \in 1 .. 3 |-> m.vertices[m.faces[i][k]]]

\* the candidates of the two loops, x outer and y inner, in loop order
Candidates(tx) ==
  LET xs == Ramp(x_min(tx), x_max(tx), img_dx)
      ys == Ramp(y_min(tx), y_max(tx), img_dy)
  IN  [k \in 1 .. Len(xs) * Len(ys) |->
         LET x == xs[((k - 1) \div Len(ys)) + 1]
             y == ys[((k - 1) % Len(ys)) + 1]
         IN  [x |-> x, y |-> y,
              uv |-> barycentric(Q(-1), Q(-1), x, y, tx)]]

\* the accepted texels of face i, in loop order
Texels(m, i) ==
  SelectSeq(Candidates(tx_coords(m, i)), LAMBDA c : Accepts(c.uv.u, c.uv.v))

Dist2(a, b) ==
  Add(Add(Mul(Sub(a[1], b[1]), Sub(a[1], b[1])),
          Mul(Sub(a[2], b[2]), Sub(a[2], b[2]))),
      Mul(Sub(a[3], b[3]), Sub(a[3], b[3])))

\* nn_search->find_nearest_points(pts, 1, ...): for each point the index of
\* the closest point of the cloud (the first one of several equally close)
find_nearest_points(pts, cloud) ==
  [j \in DOMAIN pts |->
     CHOOSE n \in DOMAIN cloud :
        \A o \in DOMAIN cloud :
           /\ ~Less(Dist2(pts[j], cloud[o].pos), Dist2(pts[j], cloud[n].pos))
           /\ (o < n => Less(Dist2(pts[j], cloud[n].pos),
                             Dist2(pts[j], cloud[o].pos)))]

InImage(idx) ==
  /\ 0 <= idx[1] /\ idx[1] < img_width
  /\ 0 <= idx[2] /\ idx[2] < img_height

\* the image after the writes j = 1 .. n of the last loop of a face
RECURSIVE WriteTexels(_, _, _, _)
WriteTexels(image, indices, colors, n) ==
  IF n = 0 THEN image
  ELSE LET before == WriteTexels(image, indices, colors, n - 1)
       IN  IF InImage(indices[n])
           THEN [before EXCEPT ![indices[n]] = colors[n]]
           ELSE before

(***************************************************************************)
(* Bakes of small meshes: one or two faces with vertices of their own,     *)
(* each face with three texture coordinates out of UVPoints, and a cloud   *)
(* of a red and a blue point.                                              *)
(***************************************************************************)
UVPoints ==
  {<<Q(0), Q(0)>>, <<Q(1), Q(0)>>, <<Q(0), Q(1)>>, <<Q(1), Q(1)>>,
   <<Norm(1, 2), Norm(1, 2)>>, <<Norm(1, 4), Norm(2, 3)>>}

BakeVertices ==
  <<<<0, 0, 0>>, <<4, 0, 0>>, <<0, 4, 0>>,
    <<0, 0, 4>>, <<4, 0, 4>>, <<0, 4, 4>>>>

\* the texture coordinates a second face may have: the other half of the
\* unit square, or the very texels of the first half
SecondUVs ==
  {<<<<Q(1), Q(1)>>, <<Q(0), Q(1)>>, <<Q(1), Q(0)>>>>,
   <<<<Q(0), Q(0)>>, <<Q(1), Q(0)>>, <<Q(0), Q(1)>>>>}

BakeMeshes ==
  {[vertices |-> BakeVertices, faces |-> <<<<1, 2, 3>>>>, regularity |-> 3,
    tex_coords |-> <<t>>] : t \in [1 .. 3 -> UVPoints]}
  \cup
  {[vertices |-> BakeVertices, faces |-> <<<<1, 2, 3>>, <<4, 5, 6>>>>,
    regularity |-> 3, tex_coords |-> <<t, t2>>] :
     t \in [1 .. 3 -> UVPoints], t2 \in SecondUVs}

Cloud ==
  <<[pos |-> <<Q(0), Q(0), Q(-1)>>, color |-> "red"],
    [pos |-> <<Q(0), Q(0), Q(5)>>, color |-> "blue"]>>

InitBake ==
  /\ points_2d = <<>>
  /\ attribs = <<>>
  /\ triangles = {}
  /\ pixel_type = "double"
  /\ depth_img = NewImage(0, 0, Inf)
  /\ img = NewImage(0, 0, Inf)
  /\ faces_left = 0
  /\ hist = <<>>
  /\ camera = [perspective |-> FALSE, P |-> <<>>, width |-> 0, height |-> 0]
  /\ log = <<>>
  /\ returned = [by |-> "none", image |-> NewImage(0, 0, Inf)]
  /\ in_depth_map = NewImage(0, 0, Inf)
  /\ out_height_map = NewImage(0, 0, Inf)
  /\ NoRun
  /\ NoApp
  /\ NoClosest
  /\ mesh \in BakeMeshes
  /\ point_cloud = Cloud
  /\ face_i = 1
  /\ pixel_pts = <<>>
  /\ pixel_indices = <<>>
  /\ texture_image = [p \in Pixels(img_width, img_height) |-> "uninitialized"]
  /\ out_of_image = <<>>
  /\ thrown = FALSE
  /\ nn_queries = <<>>

\* the position of the first index outside the image, or one past the end
FirstOutside(indices) ==
  LET out == {j \in DOMAIN indices : ~InImage(indices[j])}
  IN  IF out = {} THEN Len(indices) + 1
      ELSE CHOOSE j \in out : \A k \in out : j <= k

\* One pass of the loop over the faces.  The image class is not in this
\* source tree: texture_image.at<uint8_t>(x, y, c) with an index outside
\* the image either raises std::out_of_range, which ends texture_mesh, or
\* writes outside the pixel array.
BakeFace ==
  /\ face_i <= Len(mesh.faces)
  /\ ~thrown
  /\ \E texels \in {Texels(mesh, face_i)} :
       LET corners == CornersOf(mesh, face_i)
           pts == [j \in DOMAIN texels |->
                     BackProject(texels[j].uv.u, texels[j].uv.v, corners)]
           indices == [j \in DOMAIN texels |->
                         PixelIndex(texels[j].x, texels[j].y)]
       IN  \E closest_indices \in {find_nearest_points(pts, point_cloud)},
              stop \in {FirstOutside(indices)}, checked \in BOOLEAN :
              LET colors == [j \in DOMAIN texels |->
                               point_cloud[closest_indices[j]].color]
              IN  /\ pixel_pts' = pts
                  /\ pixel_indices' = indices
                  /\ nn_queries'
                       = Append(nn_queries,
                                [points |-> pts, K |-> 1,
                                 indices |-> closest_indices])
                  /\ thrown' = (checked /\ stop <= Len(indices))
                  /\ texture_image'
                       = WriteTexels(texture_image, indices, colors,
                                     IF checked THEN stop - 1
                                     ELSE Len(indices))
                  /\ out_of_image'
                       = out_of_image
                           \o (IF ~checked
                               THEN SelectSeq(indices,
                                              LAMBDA ix : ~InImage(ix))
                               ELSE IF stop <= Len(indices)
                               THEN <<indices[stop]>>
                               ELSE <<>>)
  /\ face_i' = face_i + 1
  /\ UNCHANGED appvars
  /\ UNCHANGED cpvars
  /\ UNCHANGED runvars
  /\ UNCHANGED <<points_2d, attribs, triangles, depth_img, img, pixel_type,
                 faces_left, hist, mesh, camera, log, returned, in_depth_map,
                 out_height_map, point_cloud>>

SpecBake == InitBake /\ [][BakeFace]_vars

(***************************************************************************)
(* What the loops of the face just baked went through.                     *)
(***************************************************************************)
\* the face the last pass of the outer loop baked
Baked == face_i - 1

\* its candidates, and the accepted ones among them, in loop order
BakedCandidates == Candidates(tx_coords(mesh, Baked))
BakedTexels == Texels(mesh, Baked)

Sub3(a, b) == [c \in 1 .. 3 |-> Sub(a[c], b[c])]

Cross3(a, b) ==
  <<Sub(Mul(a[2], b[3]), Mul(a[3], b[2])),
    Sub(Mul(a[3], b[1]), Mul(a[1], b[3])),
    Sub(Mul(a[1], b[2]), Mul(a[2], b[1]))>>

\* q lies in the plane of the three 3D points and on the inner side of, or
\* on, each edge of their triangle
InTriangle3(q, corners) ==
  LET c == [k \in 1 .. 3 |-> [n \in 1 .. 3 |-> Q(corners[k][n])]]
      normal == Cross3(Sub3(c[2], c[1]), Sub3(c[3], c[1]))
      next == <<2, 3, 1>>
  IN  /\ Dot3(Sub3(q, c[1]), normal) = Q(0)
      /\ \A k \in 1 .. 3 :
           Leq(Q(0), Dot3(Cross3(Sub3(c[next[k]], c[k]), Sub3(q, c[k])),
                          normal))

(***************************************************************************)
(* C18: in texture_mesh a candidate texel is accepted if and only if its   *)
(* barycentric weights satisfy 0 <= u <= 1, 0 <= v <= 1 and u + v <= 1,    *)
(* edges included; for every accepted texel the three back-projection      *)
(* weights 1-u-v, v, u are non-negative and sum to 1, and the              *)
(* back-projected 3D point lies in the triangle of the face's corners.     *)
(***************************************************************************)
C18_AcceptedIffInside ==
  Baked >= 1 =>
     \A candidates \in {BakedCandidates}, texels \in {BakedTexels} :
     LET inside == {k \in DOMAIN candidates :
                      LET u == candidates[k].uv.u
                          v == candidates[k].uv.v
                      IN  /\ ~Less(u, Q(0)) /\ ~Less(Q(1), u)
                          /\ ~Less(v, Q(0)) /\ ~Less(Q(1), v)
                          /\ ~Less(Q(1), Add(u, v))}
     IN  /\ Len(pixel_pts) = Cardinality(inside)
         /\ Len(pixel_indices) = Cardinality(inside)
         /\ \A j \in DOMAIN pixel_pts :
              LET t == texels[j]
                  w == Weights(t.uv.u, t.uv.v)
              IN  /\ \E k \in inside : candidates[k] = t
                  /\ \A n \in 1 .. 3 : ~Less(w[n], Q(0))
                  /\ Add(Add(w[1], w[2]), w[3]) = Q(1)
                  /\ pixel_pts[j] = Blend(w, CornersOf(mesh, Baked))
                  /\ InTriangle3(pixel_pts[j], CornersOf(mesh, Baked))

\* a face was baked with a texel strictly inside it, a texel on its edge
\* u + v = 1 and a candidate of its bounding box that was turned down for
\* u + v > 1 alone
C18_Witness ==
  /\ Baked >= 1
  /\ \E j \in DOMAIN BakedTexels :
       /\ Less(Q(0), BakedTexels[j].uv.u)
       /\ Less(Q(0), BakedTexels[j].uv.v)
       /\ Less(Add(BakedTexels[j].uv.u, BakedTexels[j].uv.v), Q(1))
  /\ \E j \in DOMAIN BakedTexels :
       Add(BakedTexels[j].uv.u, BakedTexels[j].uv.v) = Q(1)
  /\ \E k \in DOMAIN BakedCandidates :
       /\ Accepts_NoSum(BakedCandidates[k].uv.u, BakedCandidates[k].uv.v)
       /\ Less(Q(1), Add(BakedCandidates[k].uv.u, BakedCandidates[k].uv.v))
  /\ Len(pixel_pts) = Len(BakedTexels)

(***************************************************************************)
(* C19: the weight-to-corner mapping of texture_mesh is consistent.  For a *)
(* face whose UV triangle is not degenerate, a texel located exactly at    *)
(* the UV coordinate of the face's corner k (tx_coords[0], tx_coords[1],   *)
(* tx_coords[2] being texture_map at (0,1), (1,0), (0,0)) gets the weights *)
(* (u,v) = (1,0), (0,1) or (0,0) from barycentric() and is back-projected  *)
(* by (1-u-v)*corners[0] + v*corners[1] + u*corners[2] exactly onto the 3D *)
(* position of that same corner k.                                         *)
(***************************************************************************)
\* twice the signed area of the UV triangle t
UVArea2(t) ==
  Sub(Mul(Sub(t[2][1], t[1][1]), Sub(t[3][2], t[1][2])),
      Mul(Sub(t[3][1], t[1][1]), Sub(t[2][2], t[1][2])))

\* the 3D position of corner k of face i
Corner3(i, k) == [c \in 1 .. 3 |-> Q(mesh.vertices[mesh.faces[i][k]][c])]

C19_CornersReproduce ==
  (Baked >= 1 /\ UVArea2(mesh.tex_coords[Baked]) # Q(0)) =>
     \A k \in 1 .. 3, texels \in {BakedTexels} :
        LET at == mesh.tex_coords[Baked][k]
            uv == barycentric(Q(-1), Q(-1), at[1], at[2],
                              tx_coords(mesh, Baked))
        IN  /\ <<uv.u, uv.v>> \in {<<Q(1), Q(0)>>, <<Q(0), Q(1)>>,
                                   <<Q(0), Q(0)>>}
            /\ BackProject(uv.u, uv.v, CornersOf(mesh, Baked))
                 = Corner3(Baked, k)
            /\ \A j \in DOMAIN texels :
                 <<texels[j].x, texels[j].y>> = at =>
                    pixel_pts[j] = Corner3(Baked, k)

\* the loops of a face met a texel at the UV coordinate of the face's second
\* corner and one at that of its third corner, and both were back-projected
\* onto their own corner
C19_Witness ==
  /\ Baked >= 1
  /\ UVArea2(mesh.tex_coords[Baked]) # Q(0)
  /\ \A k \in 2 .. 3 :
       \E j \in DOMAIN BakedTexels :
          /\ <<BakedTexels[j].x, BakedTexels[j].y>> = mesh.tex_coords[Baked][k]
          /\ pixel_pts[j] = Corner3(Baked, k)

(***************************************************************************)
(* C20: each accepted texel at texture coordinate (u_tex, v_tex) is        *)
(* written at the image pixel x_pixel = floor(u_tex * width),              *)
(* y_pixel = floor((1 - v_tex) * height): the rows are flipped, a texel    *)
(* with a larger v_tex goes to a row with a smaller or equal index.        *)
(***************************************************************************)
\* the greatest integer not above the finite double a
Floor(a) == a[1] \div a[2]

Colors == {point_cloud[n].color : n \in DOMAIN point_cloud}

C20_WrittenAtFlippedPixel ==
  Baked >= 1 =>
     \A texels \in {BakedTexels} :
        /\ Len(pixel_indices) = Len(texels)
        /\ \A j \in DOMAIN texels :
             /\ pixel_indices[j][1] = Floor(Mul(texels[j].x, Q(img_width)))
             /\ pixel_indices[j][2]
                  = Floor(Mul(Sub(Q(1), texels[j].y), Q(img_height)))
             /\ pixel_indices[j] \in DOMAIN texture_image
             /\ texture_image[pixel_indices[j]] \in Colors
        /\ \A j, k \in DOMAIN texels :
             Less(texels[j].y, texels[k].y) =>
                pixel_indices[k][2] <= pixel_indices[j][2]

(***************************************************************************)
(* C21: a face whose three UV corners are collinear or coincident (the     *)
(* denominator of barycentric() is 0) is skipped by texture_mesh: none of  *)
(* its candidate texels is accepted, no 3D point is back-projected for it  *)
(* and no pixel of the texture image is written for it, and the faces      *)
(* after it are still processed.                                           *)
(***************************************************************************)
DegenerateUV(i) == UVArea2(mesh.tex_coords[i]) = Q(0)

C21_NothingAccepted ==
  (Baked >= 1 /\ DegenerateUV(Baked)) =>
     /\ BakedTexels = <<>>
     /\ pixel_pts = <<>>
     /\ pixel_indices = <<>>

C21_NothingWritten ==
  (face_i <= Len(mesh.faces) /\ DegenerateUV(face_i)) =>
     /\ texture_image' = texture_image
     /\ out_of_image' = out_of_image
     /\ thrown' = FALSE
     /\ face_i' = face_i + 1

C21_DegenerateUVSkipped ==
  /\ [](C21_NothingAccepted)
  /\ [][C21_NothingWritten]_vars

\* the first face has three distinct collinear UV corners and candidates in
\* its bounding box, it left the image untouched, and the second face was
\* baked after it and wrote a texel
C21_Witness ==
  /\ Baked = 2
  /\ DegenerateUV(1)
  /\ Cardinality({mesh.tex_coords[1][k] : k \in 1 .. 3}) = 3
  /\ Len(Candidates(tx_coords(mesh, 1))) > 0
  /\ ~DegenerateUV(2)
  /\ Len(pixel_pts) > 0
  /\ ~thrown
  /\ \A p \in DOMAIN texture_image :
       texture_image[p] # "uninitialized" =>
          \E j \in DOMAIN pixel_indices :
             pixel_indices[j] = p /\ texture_image[p] = "blue"
  /\ \E p \in DOMAIN texture_image : texture_image[p] = "blue"

(***************************************************************************)
(* C22: for each face texture_mesh issues exactly one nearest-neighbour    *)
(* query, with K = 1, over all of the face's accepted back-projected       *)
(* points, and then writes, for the j-th accepted texel, the colour the    *)
(* cloud stores at the j-th returned index into that texel's pixel; so a   *)
(* face whose back-projected points are all strictly closer to the red     *)
(* point than to the blue one has every one of its texels red.             *)
(***************************************************************************)
CloserToRed(pt) ==
  Less(Dist2(pt, point_cloud[1].pos), Dist2(pt, point_cloud[2].pos))

C22_OneQueryThenJthColour ==
  Baked >= 1 =>
     /\ Len(nn_queries) = Baked
     /\ nn_queries[Baked].points = pixel_pts
     /\ nn_queries[Baked].K = 1
     /\ \A j \in DOMAIN pixel_indices :
          /\ pixel_indices[j] \in DOMAIN texture_image
          /\ texture_image[pixel_indices[j]]
               = point_cloud[nn_queries[Baked].indices[j]].color
     /\ (\A j \in DOMAIN pixel_pts : CloserToRed(pixel_pts[j])) =>
           \A j \in DOMAIN pixel_indices :
              /\ pixel_indices[j] \in DOMAIN texture_image
              /\ texture_image[pixel_indices[j]] = "red"

(***************************************************************************)
(* C23: when two different faces of one mesh produce an accepted texel at  *)
(* the same pixel of the texture image, texture_mesh surfaces the          *)
(* collision as an error; it does not silently replace the colour written  *)
(* for the earlier face by the colour of the later face.                   *)
(***************************************************************************)
\* the pixels that hold the colour of some face
Coloured(image) == {p \in DOMAIN image : image[p] \in Colors}

C23_NoSilentOverwrite ==
  (\E p \in Coloured(texture_image) : texture_image'[p] # texture_image[p]) =>
     (thrown' \/ log' # log)

C23_CollisionSurfaced == [][C23_NoSilentOverwrite]_vars


(***************************************************************************)
(* Concurrent compositing.  Each worker runs the loops of render_triangle  *)
(* (shape (a)) for its own triangle on one shared depth image; the body of *)
(* the inner loop, the depth test and the write of one pixel, is one       *)
(* atomic step, and the steps of different workers interleave freely.      *)
(***************************************************************************)
MaxWorkers == 2

\* the pixels of a set in the order the loops visit them: scan line by scan
\* line, x ascending within a line
RECURSIVE ScanOrder(_)
ScanOrder(px) ==
  IF px = {} THEN <<>>
  ELSE LET first == CHOOSE p \in px :
                      \A q \in px :
                        p[2] < q[2] \/ (p[2] = q[2] /\ p[1] <= q[1])
       IN  <<first>> \o ScanOrder(px \ {first})

\* the vertex depths of a worker's triangle: constant near, constant far,
\* and two slopes that cross inside the image
ParDepths ==
  {<<Q(1), Q(1), Q(1)>>, <<Q(MaxDepth), Q(MaxDepth), Q(MaxDepth)>>,
   <<Q(1), Q(MaxDepth), Q(MaxDepth)>>, <<Q(MaxDepth), Q(1), Q(1)>>}

ParCalls ==
  {Call("depth", Corners[f[1]], Corners[f[2]], Corners[f[3]],
        d[1], d[2], d[3], 0, 0, 0, 0) :
     f \in Faces(Len(Corners)), d \in ParDepths}

\* the worker of call c before its first step
Worker(c, dimg) ==
  [plane |-> PlaneOf(c.v[1], c.v[2], c.v[3], c.d[1], c.d[2], c.d[3]),
   todo  |-> ScanOrder(LoopPixels(c.v[1], c.v[2], c.v[3],
                                  dimg.width, dimg.height))]

InitPar ==
  /\ points_2d = Corners
  /\ attribs = [i \in 1 .. Len(Corners) |-> i]
  /\ triangles = Faces(Len(Corners))
  /\ pixel_type = "double"
  /\ depth_img = NewImage(MaxDim, MaxDim, Inf)
  /\ img = NewImage(MaxDim, MaxDim, Inf)
  /\ faces_left = 0
  /\ hist \in [1 .. MaxWorkers -> ParCalls]
  /\ workers = [w \in 1 .. MaxWorkers |-> Worker(hist[w], depth_img)]
  /\ accessed = {}
  /\ NoMesh
  /\ NoBake
  /\ NoApp
  /\ NoClosest

\* one worker tests and writes its next pixel
ParStep ==
  \E w \in DOMAIN workers :
    /\ workers[w].todo # <<>>
    /\ LET p == Head(workers[w].todo)
           at_p == PlaneAt(workers[w].plane, p[1], p[2])
       IN  depth_img' = [depth_img EXCEPT
                           !.data[p] = DepthWrite(at_p, depth_img.data[p])]
    /\ workers' = [workers EXCEPT ![w].todo = Tail(@)]
    /\ UNCHANGED <<points_2d, attribs, triangles, img, pixel_type,
                   faces_left, hist, accessed>>
    /\ UNCHANGED meshvars
    /\ UNCHANGED bakevars
    /\ UNCHANGED appvars
    /\ UNCHANGED cpvars

SpecPar == InitPar /\ [][ParStep]_vars

\* every worker has left its loops
AllDone == workers # <<>> /\ \A w \in DOMAIN workers : workers[w].todo = <<>>

(***************************************************************************)
(* C24: when the triangles are composited concurrently into one depth      *)
(* buffer and the test-and-write of a pixel is atomic, every interleaving  *)
(* ends with the buffer that compositing them one after the other leaves,  *)
(* which holds at every pixel the least depth among the triangles over it. *)
(***************************************************************************)
C24_InterleavingsAgree ==
  AllDone =>
    /\ depth_img = Run(hist).depth_img
    /\ \A p \in PixelsOf(depth_img) :
         depth_img.data[p] = MinOf({DepthAt(hist[i], p) : i \in Covering(p)})

\* both workers are done; at some pixel both triangles were written, the
\* first worker's depth is the nearer one and the pixel holds it
C24_Witness ==
  /\ AllDone
  /\ \E p \in PixelsOf(depth_img) :
       /\ Covering(p) = {1, 2}
       /\ Less(DepthAt(hist[1], p), DepthAt(hist[2], p))
       /\ depth_img.data[p] = DepthAt(hist[1], p)

(***************************************************************************)
(* C28: for a face whose UV corners all lie in the unit square, every      *)
(* pixel index at which texture_mesh writes the texture image is inside    *)
(* the image: 0 <= x_idx < img_width and 0 <= y_idx < img_height, also for *)
(* texels accepted on an edge at texture coordinate y = 0 or x = 1.        *)
(***************************************************************************)
InUnitSquare(uv) ==
  /\ Leq(Q(0), uv[1]) /\ Leq(uv[1], Q(1))
  /\ Leq(Q(0), uv[2]) /\ Leq(uv[2], Q(1))

C28_WritesInsideImage ==
  (Baked >= 1 /\ \A j \in 1 .. 3 : InUnitSquare(tx_coords(mesh, Baked)[j])) =>
     \A j \in DOMAIN pixel_indices :
        /\ 0 <= pixel_indices[j][1] /\ pixel_indices[j][1] < img_width
        /\ 0 <= pixel_indices[j][2] /\ pixel_indices[j][2] < img_height

(***************************************************************************)
(* render_triangle on a depth image and a paired image of unequal sizes.   *)
(* Shape (a) bounds its loops by depth_img; shapes (b) and (c) bound them  *)
(* by img alone and index depth_img with the same (x, y).  operator() of   *)
(* the image class does no range test: a read of depth_img outside its     *)
(* pixels yields whatever lies there, so the depth test at such a pixel    *)
(* may pass or fail, and when it passes img is written at the pixel and    *)
(* the depth goes to memory outside the depth image.                       *)
(***************************************************************************)
\* <<width, height>> of depth_img and of img
PairBuffers ==
  {<<<<MaxDim, MaxDim>>, <<MaxDim, MaxDim>>>>,
   <<<<MaxDim - 1, MaxDim - 2>>, <<MaxDim, MaxDim>>>>,
   <<<<MaxDim, MaxDim>>, <<MaxDim - 1, MaxDim - 2>>>>}

InitPair ==
  /\ points_2d = Corners
  /\ attribs = [i \in 1 .. Len(Corners) |-> i]
  /\ triangles = Faces(Len(Corners))
  /\ pixel_type \in {"double", "int"}
  /\ \E b \in PairBuffers :
       /\ depth_img = NewImage(b[1][1], b[1][2], Inf)
       /\ img = NewImage(b[2][1], b[2][2], Blank(pixel_type))
  /\ faces_left = 1
  /\ hist = <<>>
  /\ NoMesh
  /\ NoBake
  /\ NoApp
  /\ NoClosest
  /\ NoRun

\* the elements of one buffer at a set of pixels
Access(buffer, px) == {[buffer |-> buffer, p |-> p] : p \in px}

\* the pixels the loops of shapes (b) and (c) visit outside the depth image
Stray(v1, v2, v3, dimg, im) ==
  LoopPixels(v1, v2, v3, im.width, im.height) \ DOMAIN dimg.data

\* the pixels of the depth image at which the depth test of the call passes
Passing(v1, v2, v3, d1, d2, d3, dimg, im) ==
  LET pl_d == PlaneOf(v1, v2, v3, d1, d2, d3)
  IN  {p \in LoopPixels(v1, v2, v3, im.width, im.height) \cap DOMAIN dimg.data :
         Less(PlaneAt(pl_d, p[1], p[2]), dimg.data[p])}

PairDepth ==
  \E f \in triangles, d \in ParDepths :
    LET v1 == points_2d[f[1]]
        v2 == points_2d[f[2]]
        v3 == points_2d[f[3]]
    IN  /\ faces_left > 0
        /\ faces_left' = faces_left - 1
        /\ depth_img' = render_triangle(v1, v2, v3, d[1], d[2], d[3], depth_img)
        /\ accessed' = Access("depth_img",
                              LoopPixels(v1, v2, v3,
                                         depth_img.width, depth_img.height))
        /\ hist' = Append(hist, Call("depth", v1, v2, v3, d[1], d[2], d[3],
                                     0, 0, 0, 0))
        /\ UNCHANGED <<points_2d, attribs, triangles, img, pixel_type, workers>>
        /\ UNCHANGED meshvars
        /\ UNCHANGED bakevars
        /\ UNCHANGED appvars
        /\ UNCHANGED cpvars

PairAttrib ==
  \E f \in triangles, d \in ParDepths :
    LET v1 == points_2d[f[1]]
        v2 == points_2d[f[2]]
        v3 == points_2d[f[3]]
        a1 == attribs[f[1]]
        a2 == attribs[f[2]]
        a3 == attribs[f[3]]
        pl == PlaneOf(v1, v2, v3, Q(a1), Q(a2), Q(a3))
        r  == render_triangle_attrib(v1, v2, v3, d[1], d[2], d[3], a1, a2, a3,
                                     depth_img, img, pixel_type)
    IN  \E passed \in SUBSET Stray(v1, v2, v3, depth_img, img) :
          /\ faces_left > 0
          /\ faces_left' = faces_left - 1
          /\ depth_img' = r.depth_img
          /\ img' = [r.img EXCEPT !.data =
                       [p \in DOMAIN r.img.data |->
                          IF p \in passed
                          THEN CastT(pixel_type, PlaneAt(pl, p[1], p[2]))
                          ELSE r.img.data[p]]]
          /\ accessed' =
               Access("depth_img",
                      LoopPixels(v1, v2, v3, img.width, img.height))
                 \cup Access("img", passed \cup Passing(v1, v2, v3, d[1], d[2],
                                                        d[3], depth_img, img))
          /\ hist' = Append(hist, Call("attrib", v1, v2, v3, d[1], d[2], d[3],
                                       a1, a2, a3, 0))
          /\ UNCHANGED <<points_2d, attribs, triangles, pixel_type, workers>>
          /\ UNCHANGED meshvars
          /\ UNCHANGED bakevars
          /\ UNCHANGED appvars
          /\ UNCHANGED cpvars

PairValue ==
  \E f \in triangles, d \in ParDepths, value \in Values :
    LET v1 == points_2d[f[1]]
        v2 == points_2d[f[2]]
        v3 == points_2d[f[3]]
        r  == render_triangle_value(v1, v2, v3, d[1], d[2], d[3], value,
                                    depth_img, img)
    IN  \E passed \in SUBSET Stray(v1, v2, v3, depth_img, img) :
          /\ faces_left > 0
          /\ faces_left' = faces_left - 1
          /\ depth_img' = r.depth_img
          /\ img' = [r.img EXCEPT !.data =
                       [p \in DOMAIN r.img.data |->
                          IF p \in passed THEN Q(value) ELSE r.img.data[p]]]
          /\ accessed' =
               Access("depth_img",
                      LoopPixels(v1, v2, v3, img.width, img.height))
                 \cup Access("img", passed \cup Passing(v1, v2, v3, d[1], d[2],
                                                        d[3], depth_img, img))
          /\ hist' = Append(hist, Call("value", v1, v2, v3, d[1], d[2], d[3],
                                       0, 0, 0, value))
          /\ UNCHANGED <<points_2d, attribs, triangles, pixel_type, workers>>
          /\ UNCHANGED meshvars
          /\ UNCHANGED bakevars
          /\ UNCHANGED appvars
          /\ UNCHANGED cpvars

NextPair == PairDepth \/ PairAttrib \/ PairValue

SpecPair == InitPair /\ [][NextPair]_vars

(***************************************************************************)
(* C27: for any triangle vertices and any buffers, every pixel (x, y) that *)
(* render_triangle reads or writes lies inside every buffer it accesses at *)
(* that pixel: inside depth_img in the depth-only shape, inside both       *)
(* depth_img and img in the other two shapes.                              *)
(***************************************************************************)
C27_AccessesInsideBuffers ==
  \A a \in accessed :
    LET buffer == IF a.buffer = "depth_img" THEN depth_img ELSE img
    IN  /\ 0 <= a.p[1] /\ a.p[1] < buffer.width
        /\ 0 <= a.p[2] /\ a.p[2] < buffer.height

(***************************************************************************)
(* The texture-from-pointcloud applet: run(), process_command_line,        *)
(* check_config, initialize and run_algorithm.  The configuration block,   *)
(* the validators of check_config, the four algorithms (point cloud        *)
(* reader, nearest-neighbour search, UV unwrapper, image writer), the mesh *)
(* reader and writer and the directory listing are not in this source      *)
(* tree; each call of one of them is one step that either returns or       *)
(* throws.                                                                 *)
(***************************************************************************)
\* the most files the mesh directory holds
MaxFiles == 3

\* "none": the option was not given (cmd_args.count(...) == 0)
NotGiven == "none"

\* the configuration keys check_config validates
Keys == {"mesh_directory", "point_cloud_file", "output_directory"}

\* a configuration block over these keys; "unset" for a key without value
Unset == "unset"

\* what exists on disk
ExistingDirs == {"/meshes", "/out"}
ExistingFiles == {"/cloud.las"}

\* default_config(): the algorithm types only, none of the three paths
default_config == [k \in Keys |-> Unset]

\* config->merge_config(other): the values of other replace those of config
merge_config(config, other) ==
  [k \in Keys |-> IF other[k] # Unset THEN other[k] ELSE config[k]]

\* config->set_value(key, value)
set_value(config, key, value) == [config EXCEPT ![key] = value]

\* validate_required_input_dir / _input_file / _output_dir (create = true)
validate_required_input_dir(name, config) ==
  config[name] # Unset /\ config[name] \in ExistingDirs

validate_required_input_file(name, config) ==
  config[name] # Unset /\ config[name] \in ExistingFiles

validate_required_output_dir(name, config) ==
  config[name] # Unset /\ config[name] # ""

check_config(config) ==
  /\ validate_required_input_dir("mesh_directory", config)
  /\ validate_required_input_file("point_cloud_file", config)
  /\ validate_required_output_dir("output_directory", config)

\* the configuration files -c may name: one that cannot be read, one that
\* sets nothing, one that sets the three paths
ConfigFiles ==
  {[readable |-> FALSE, values |-> default_config],
   [readable |-> TRUE, values |-> default_config],
   [readable |-> TRUE,
    values |-> [k \in Keys |-> IF k = "mesh_directory" THEN "/meshes"
                               ELSE IF k = "point_cloud_file" THEN "/cloud.las"
                               ELSE "/out"]]}

\* a config_block_sptr: the null pointer, or a pointer to a block
nullptr == [null |-> TRUE, values |-> default_config]

Block(values) == [null |-> FALSE, values |-> values]

\* the command lines
CommandLines ==
  [help : BOOLEAN, config : BOOLEAN, output_config : BOOLEAN,
   mesh_ext : {NotGiven, ".ply"},
   mesh_dir : {NotGiven, "/meshes"},
   point_cloud_file : {NotGiven, "/cloud.las"},
   output_dir : {NotGiven, "/out"}]

\* the files of the mesh directory: name, last extension, and the
\* regularity of the mesh read_mesh finds inside
MeshFiles ==
  <<[name |-> "a", ext |-> ".obj", regularity |-> 3],
    [name |-> "c", ext |-> ".ply", regularity |-> 3],
    [name |-> "b", ext |-> ".obj", regularity |-> 4]>>

\* the members of priv after construction, and the locals of run_algorithm
\* (point_cloud, mesh_dir, i, input_mesh) before it runs
NewPriv ==
  [pc |-> "process_command_line",
   config |-> nullptr,
   nn_search |-> "nullptr",
   point_cloud_reader |-> "nullptr",
   mesh_directory |-> "",
   point_cloud_file |-> "",
   output_directory |-> "",
   mesh_extension |-> ".obj",
   mode |-> "none",
   point_cloud |-> "none",
   mesh_dir |-> <<>>,
   i |-> 0,
   input_mesh |-> "none"]

InitApp ==
  /\ points_2d = <<>>
  /\ attribs = <<>>
  /\ triangles = {}
  /\ pixel_type = "double"
  /\ depth_img = NewImage(0, 0, Inf)
  /\ img = NewImage(0, 0, Inf)
  /\ faces_left = 0
  /\ hist = <<>>
  /\ NoMesh
  /\ NoBake
  /\ cmd_args \in CommandLines
  /\ \E n \in 1 .. Min2(MaxFiles, Len(MeshFiles)), file \in ConfigFiles :
       env = [config_file |-> file, files |-> SubSeq(MeshFiles, 1, n)]
  /\ NoRun
  /\ NoClosest
  /\ app = NewPriv
  /\ events = <<>>
  /\ exception = NoException
  /\ exit_code = "none"

\* what a throw of e does to the position: texture_mesh, run_algorithm and
\* process_command_line have no handler, control goes to the catch clauses
\* of run()
OnThrow_NextFile(a, e) == [a EXCEPT !.pc = "file", !.i = a.i + 1]

OnThrow(a, e) == [a EXCEPT !.pc = "catch"]

\* the exceptions a collaborator may throw: derived from std::exception
\* or not
Exceptions(op) ==
  {[type |-> t, what |-> op] : t \in {"std::exception", "other"}}

\* process_command_line: the members afterwards, the mode returned, the
\* lines logged, and whether read_config_file threw
process_command_line(a, args, file) ==
  IF args.help
  THEN [priv |-> a, mode |-> "HELP", logged |-> <<>>, threw |-> FALSE]
  ELSE
    LET ext == IF args.mesh_ext # NotGiven THEN args.mesh_ext
               ELSE a.mesh_extension
        c0  == default_config
    IN  IF args.config /\ ~file.readable
        THEN [priv |-> [a EXCEPT !.mesh_extension = ext,
                                 !.config = Block(c0)],
              mode |-> "none", logged |-> <<>>, threw |-> TRUE]
        ELSE
          LET c1 == IF args.config THEN merge_config(c0, file.values)
                    ELSE c0
              c2 == IF args.mesh_dir # NotGiven
                    THEN set_value(c1, "mesh_directory", args.mesh_dir)
                    ELSE c1
              c3 == IF args.point_cloud_file # NotGiven
                    THEN set_value(c2, "point_cloud_file",
                                   args.point_cloud_file)
                    ELSE c2
              c4 == IF args.output_dir # NotGiven
                    THEN set_value(c3, "output_directory", args.output_dir)
                    ELSE c3
              b  == [a EXCEPT
                       !.mesh_extension = ext,
                       !.mesh_directory =
                          IF args.mesh_dir # NotGiven THEN args.mesh_dir
                          ELSE @,
                       !.point_cloud_file =
                          IF args.point_cloud_file # NotGiven
                          THEN args.point_cloud_file ELSE @,
                       !.output_directory =
                          IF args.output_dir # NotGiven THEN args.output_dir
                          ELSE @]
              valid_config == check_config(c4)
          IN  IF args.output_config
              THEN [priv |-> [b EXCEPT !.config = nullptr],
                    mode |-> "WRITE",
                    logged |-> IF valid_config
                               THEN <<"Configuration file contained valid parameters and may be used for running">>
                               ELSE <<"Configuration deemed not valid.">>,
                    threw |-> FALSE]
              ELSE IF ~valid_config
              THEN [priv |-> [b EXCEPT !.config = nullptr],
                    mode |-> "FAIL",
                    logged |-> <<"Configuration not valid.">>,
                    threw |-> FALSE]
              ELSE [priv |-> [b EXCEPT !.config = Block(c4)],
                    mode |-> "SUCCESS", logged |-> <<>>, threw |-> FALSE]

\* a call of a collaborator: what is called, on what, for which file of
\* the mesh directory (0 outside the loop over the files)
Event(op, arg, file) == [op |-> op, arg |-> arg, file |-> file]

\* the frame of every step of the applet
AppFrame ==
  /\ UNCHANGED <<points_2d, attribs, triangles, depth_img, img, pixel_type,
                 faces_left, hist, mesh, camera, returned, in_depth_map,
                 out_height_map, cmd_args, env>>
  /\ UNCHANGED bakevars
  /\ UNCHANGED runvars
  /\ UNCHANGED cpvars

\* run(): the call of process_command_line, the switch on its result and
\* the test of d->config
ProcessCommandLine ==
  /\ app.pc = "process_command_line"
  /\ \E r \in {process_command_line(app, cmd_args, env.config_file)} :
       IF r.threw
       THEN \E e \in {[type |-> "std::exception", what |-> "read_config_file"]} :
              /\ app' = OnThrow(r.priv, e)
              /\ exception' = e
              /\ UNCHANGED <<log, exit_code>>
       ELSE /\ log' = log \o r.logged
            /\ exception' = exception
            /\ IF r.mode \in {"HELP", "WRITE"}
               THEN /\ exit_code' = "EXIT_SUCCESS"
                    /\ app' = [r.priv EXCEPT !.mode = r.mode, !.pc = "returned"]
               ELSE IF r.mode = "FAIL" \/ r.priv.config.null
               THEN /\ exit_code' = "EXIT_FAILURE"
                    /\ app' = [r.priv EXCEPT !.mode = r.mode, !.pc = "returned"]
               ELSE /\ exit_code' = exit_code
                    /\ app' = [r.priv EXCEPT
                                 !.mode = r.mode,
                                 !.pc = IF r.priv.nn_search = "nullptr"
                                           \/ r.priv.point_cloud_reader = "nullptr"
                                        THEN "initialize"
                                        ELSE "run_algorithm"]
  /\ events' = IF ~cmd_args.help /\ cmd_args.config
               THEN Append(events, Event("read_config_file", "", 0))
               ELSE events
  /\ AppFrame

\* d->initialize(): the four algorithms are created from the configuration
Initialize ==
  /\ app.pc = "initialize"
  /\ app' = [app EXCEPT !.nn_search = "set", !.point_cloud_reader = "set",
                        !.pc = "run_algorithm"]
  /\ UNCHANGED <<log, events, exception, exit_code>>
  /\ AppFrame

\* Calls of collaborators from run_algorithm or texture_mesh: the calls are
\* recorded; the last of them either returns, and the members become
\* after, or throws
Invoke(calls, fail, after) ==
  /\ events' = events \o calls
  /\ \E fails \in fail :
       IF fails
       THEN \E e \in Exceptions(calls[Len(calls)].op) :
              /\ app' = OnThrow(app, e)
              /\ exception' = e
       ELSE /\ app' = after
            /\ exception' = exception
  /\ UNCHANGED exit_code
  /\ AppFrame

\* the positions of the point cloud in /cloud.las
Positions == <<"p1", "p2", "p3">>

\* run(): LOG_INFO "Finished configuring"; run_algorithm:
\* point_cloud_reader->load(point_cloud_file)
LoadPointCloud ==
  /\ app.pc = "run_algorithm"
  /\ log' = Append(log, "Finished configuring")
  /\ Invoke(<<Event("load", app.point_cloud_file, 0)>>,
            IF app.point_cloud_file \in ExistingFiles THEN BOOLEAN
            ELSE {TRUE},
            [app EXCEPT !.point_cloud = Positions, !.pc = "build"])

\* the loop that copies the positions, and nn_search->build(points)
BuildIndex ==
  /\ app.pc = "build"
  /\ UNCHANGED log
  /\ Invoke(<<Event("build",
                    [k \in DOMAIN app.point_cloud |-> app.point_cloud[k]], 0)>>,
            BOOLEAN, [app EXCEPT !.pc = "mesh_dir"])

\* mesh_dir.Load(mesh_directory), whose result is not looked at, and
\* GetNumberOfFiles
LoadDirectory ==
  /\ app.pc = "mesh_dir"
  /\ UNCHANGED log
  /\ Invoke(<<Event("Load", app.mesh_directory, 0)>>, {FALSE},
            [app EXCEPT
               !.mesh_dir = IF app.mesh_directory \in ExistingDirs
                            THEN env.files ELSE <<>>,
               !.i = 1, !.pc = "file"])

\* the head of the loop over the files and the test of the extension; at
\* the end of the loop run_algorithm returns and run() logs and returns
NextFile ==
  /\ app.pc = "file"
  /\ IF app.i > Len(app.mesh_dir)
     THEN /\ log' = Append(log, "Finished computing")
          /\ exit_code' = "EXIT_SUCCESS"
          /\ app' = [app EXCEPT !.pc = "returned"]
     ELSE /\ UNCHANGED <<log, exit_code>>
          /\ app' = IF app.mesh_dir[app.i].ext = app.mesh_extension
                    THEN [app EXCEPT !.pc = "read_mesh"]
                    ELSE [app EXCEPT !.i = @ + 1]
  /\ UNCHANGED <<events, exception>>
  /\ AppFrame

\* the file the loop is at
mesh_file == app.mesh_dir[app.i]

ReadMesh ==
  /\ app.pc = "read_mesh"
  /\ UNCHANGED log
  /\ Invoke(<<Event("read_mesh", <<app.mesh_directory, mesh_file.name,
                                   mesh_file.ext>>, app.i)>>,
            BOOLEAN,
            [app EXCEPT
               !.input_mesh = [regularity |-> mesh_file.regularity,
                               unwrapped |-> FALSE],
               !.pc = "triangulate"])

\* the test before mesh_triangulate
NeedsTriangulation_Never(input_mesh) == FALSE

NeedsTriangulation(input_mesh) == input_mesh.regularity # 3

\* if (regularity() != 3) mesh_triangulate(*input_mesh)
Triangulate ==
  /\ app.pc = "triangulate"
  /\ UNCHANGED log
  /\ IF NeedsTriangulation(app.input_mesh)
     THEN Invoke(<<Event("mesh_triangulate", app.input_mesh, app.i)>>, {FALSE},
                 [app EXCEPT !.input_mesh.regularity = 3, !.pc = "unwrap"])
     ELSE Invoke(<<>>, {FALSE}, [app EXCEPT !.pc = "unwrap"])

Unwrap ==
  /\ app.pc = "unwrap"
  /\ UNCHANGED log
  /\ Invoke(<<Event("unwrap", app.input_mesh, app.i)>>, BOOLEAN,
            [app EXCEPT !.input_mesh.unwrapped = TRUE, !.pc = "texture_mesh"])

\* texture_mesh(point_cloud, input_mesh) and, inside it, the
\* nearest-neighbour queries
TextureMesh ==
  /\ app.pc = "texture_mesh"
  /\ UNCHANGED log
  /\ Invoke(<<Event("texture_mesh", app.input_mesh, app.i),
              Event("find_nearest_points", app.input_mesh, app.i)>>,
            BOOLEAN, [app EXCEPT !.pc = "save"])

SaveImage ==
  /\ app.pc = "save"
  /\ UNCHANGED log
  /\ Invoke(<<Event("save", <<app.output_directory, mesh_file.name, ".png">>,
                    app.i)>>,
            BOOLEAN, [app EXCEPT !.pc = "mtl"])

\* the material file, written through a std::ofstream that is not tested
WriteMtl ==
  /\ app.pc = "mtl"
  /\ UNCHANGED log
  /\ Invoke(<<Event("mtl_file", <<app.output_directory, mesh_file.name,
                                  ".mtl">>, app.i)>>,
            {FALSE}, [app EXCEPT !.pc = "write_obj"])

\* set_tex_source and write_obj; then the next file
WriteObj ==
  /\ app.pc = "write_obj"
  /\ UNCHANGED log
  /\ Invoke(<<Event("write_obj", <<app.output_directory, mesh_file.name,
                                   ".obj">>, app.i)>>,
            BOOLEAN, [app EXCEPT !.i = @ + 1, !.pc = "file"])

\* the catch clauses of run()
Catch ==
  /\ app.pc = "catch"
  /\ log' = Append(log, IF exception.type = "std::exception"
                        THEN "Exception caught: " \o exception.what
                        ELSE "Unknown exception caught")
  /\ exit_code' = "EXIT_FAILURE"
  /\ app' = [app EXCEPT !.pc = "returned"]
  /\ UNCHANGED <<events, exception>>
  /\ AppFrame

NextApp ==
  \/ ProcessCommandLine
  \/ Initialize
  \/ LoadPointCloud
  \/ BuildIndex
  \/ LoadDirectory
  \/ NextFile
  \/ ReadMesh
  \/ Triangulate
  \/ Unwrap
  \/ TextureMesh
  \/ SaveImage
  \/ WriteMtl
  \/ WriteObj
  \/ Catch

SpecApp == InitApp /\ [][NextApp]_vars

(***************************************************************************)
(* What the recorded calls mean, for the properties of the applet.         *)
(***************************************************************************)
\* the calls made for file f of the mesh directory, in order
EventsOf(f) == SelectSeq(events, LAMBDA e : e.file = f)

\* the operations of a sequence of calls
Ops(calls) == [k \in DOMAIN calls |-> calls[k].op]

IsPrefix(a, b) == Len(a) <= Len(b) /\ a = SubSeq(b, 1, Len(a))

\* the positions at which op was called
CallsOf(op) == {k \in DOMAIN events : events[k].op = op}

\* run() has returned
Returned == exit_code # "none"

(***************************************************************************)
(* C26: in one run of the applet the nearest-neighbour index is built      *)
(* once, from all positions of the point cloud, before any query; for each *)
(* file with the selected extension the steps are, in this order, read     *)
(* mesh, triangulate if its regularity is not 3, unwrap, bake, save image, *)
(* write material file, write mesh file; so unwrap precedes the bake of    *)
(* the same mesh, every baked mesh is triangular, and a file with another  *)
(* extension causes none of these steps.                                   *)
(***************************************************************************)
\* the steps for a file of the given regularity
StepsFor(regularity) ==
  <<"read_mesh">>
    \o (IF regularity # 3 THEN <<"mesh_triangulate">> ELSE <<>>)
    \o <<"unwrap", "texture_mesh", "find_nearest_points", "save", "mtl_file",
         "write_obj">>

C26_StepsInOrder ==
    /\ Cardinality(CallsOf("build")) <= 1
    /\ \A k \in CallsOf("build") : events[k].arg = Positions
    /\ \A q \in CallsOf("find_nearest_points") :
         \E k \in CallsOf("build") : k < q
    /\ (exit_code = "EXIT_SUCCESS" /\ app.mode = "SUCCESS") =>
          Cardinality(CallsOf("build")) = 1
    /\ \A j, k \in DOMAIN events : j < k => events[j].file <= events[k].file
    /\ \A f \in DOMAIN env.files :
         \A done \in {EventsOf(f)} :
           IF env.files[f].ext = app.mesh_extension
           THEN /\ IsPrefix(Ops(done), StepsFor(env.files[f].regularity))
                /\ (app.i > f /\ exception = NoException /\ app.pc # "mesh_dir") =>
                      Ops(done) = StepsFor(env.files[f].regularity)
                /\ \A k \in DOMAIN done :
                     done[k].op = "texture_mesh" =>
                        /\ done[k].arg.regularity = 3
                        /\ done[k].arg.unwrapped
           ELSE done = <<>>

\* the run ended well after three files: a.obj was baked, c.ply caused no
\* step, b.obj with faces of four vertices was triangulated first
C26_Witness ==
  /\ exit_code = "EXIT_SUCCESS"
  /\ app.mode = "SUCCESS"
  /\ Len(env.files) = 3
  /\ Ops(EventsOf(1)) = StepsFor(3)
  /\ EventsOf(2) = <<>>
  /\ Ops(EventsOf(3)) = StepsFor(4)

(***************************************************************************)
(* C25: a failure raised by a collaborator during a run (point-cloud load, *)
(* index build, mesh read, UV unwrap, nearest-neighbour query, image save) *)
(* passes unchanged through texture_mesh and run_algorithm to their        *)
(* caller run(), which reports it; the failing operation is not invoked a  *)
(* second time and no further call, for this or a later mesh, follows it.  *)
(***************************************************************************)
C25_FailureEndsRun ==
  exception # NoException =>
    \A n \in {Len(events)} :
      /\ n >= 1
      /\ events[n].op = exception.what
      /\ \A j \in 1 .. n - 1 :
           ~(events[j].op = events[n].op /\ events[j].file = events[n].file)
      /\ app.pc \in {"catch", "returned"}
      /\ Returned =>
           /\ exit_code = "EXIT_FAILURE"
           /\ log[Len(log)] = IF exception.type = "std::exception"
                              THEN "Exception caught: " \o exception.what
                              ELSE "Unknown exception caught"

\* with three files in the directory the image writer failed on the first:
\* run() has returned EXIT_FAILURE and nothing was done for the third file
C25_Witness ==
  /\ exception.what = "save"
  /\ Returned
  /\ Len(env.files) = 3
  /\ events[Len(events)].file = 1
  /\ EventsOf(3) = <<>>

(***************************************************************************)
(* C29: run_algorithm executes only after process_command_line returned    *)
(* SUCCESS with a non-null config, never after HELP, WRITE or FAIL; and    *)
(* the mesh_directory, point_cloud_file and output_directory it uses are   *)
(* the values of the config keys of these names that check_config          *)
(* validated, whether they came from the command line or from the merged   *)
(* configuration file.                                                     *)
(***************************************************************************)
\* the calls run_algorithm makes
AlgorithmCalls == {k \in DOMAIN events : events[k].op # "read_config_file"}

C29_RunsOnValidatedPaths ==
  AlgorithmCalls # {} =>
    /\ app.mode = "SUCCESS"
    /\ ~app.config.null
    /\ check_config(app.config.values)
    /\ \A k \in AlgorithmCalls :
         /\ events[k].op = "load" =>
              events[k].arg = app.config.values["point_cloud_file"]
         /\ events[k].op = "Load" =>
              events[k].arg = app.config.values["mesh_directory"]
         /\ events[k].op \in {"save", "mtl_file", "write_obj"} =>
              events[k].arg[1] = app.config.values["output_directory"]

(***************************************************************************)
(* run_mesh_closest_points of the Python binding.  The iterations of the   *)
(* omp parallel for run on several threads; iteration i calls              *)
(* mesh_closest_point, which writes cp_vals[i], u_vals[i] and v_vals[i]    *)
(* through its reference arguments, and then stores the returned index in  *)
(* idx_vals[i].  The steps of different iterations interleave freely; the  *)
(* loop that builds the result runs on one thread after the parallel loop. *)
(* mesh_closest_point is not in this source tree: it stands here as the    *)
(* nearest corner of the nearest face, a function of the point and the     *)
(* mesh that writes all three outputs.                                     *)
(***************************************************************************)
\* the number of query points
MaxPoints == 3

\* an element of new double[n], new int[n] or new point_3d[n]: before its
\* first write, and holding x
Uninitialized == [set |-> FALSE, val |-> <<>>]

Holding(x) == [set |-> TRUE, val |-> x]

\* an iteration of the parallel loop: not started, between the call and
\* the store of the index it returned, or finished
Waiting == [stage |-> "waiting", slot |-> 0, idx |-> 0]

Done == [stage |-> "done", slot |-> 0, idx |-> 0]

QueryPoints == {<<0, 0, 0>>, <<4, 0, 1>>, <<0, 1, 4>>, <<3, 0, 4>>}

ClosestMesh ==
  [vertices |-> BakeVertices, faces |-> <<<<1, 2, 3>>, <<4, 5, 6>>>>,
   regularity |-> 3]

\* what closest_points may hold before the call
PriorLists == {<<>>, <<<<9, 9, 9>>>>}

SqDist(a, b) ==
  (a[1] - b[1]) * (a[1] - b[1]) + (a[2] - b[2]) * (a[2] - b[2])
    + (a[3] - b[3]) * (a[3] - b[3])

\* the corners <<face, corner>> of mesh m, and the nearest of them to p
FaceCorners(m) == (DOMAIN m.faces) \X (1 .. 3)

CornerAt(m, fc) == m.vertices[m.faces[fc[1]][fc[2]]]

mesh_closest_point(p, m) ==
  LET best == CHOOSE fc \in FaceCorners(m) :
                \A other \in FaceCorners(m) :
                  \/ SqDist(p, CornerAt(m, fc)) < SqDist(p, CornerAt(m, other))
                  \/ /\ SqDist(p, CornerAt(m, fc)) = SqDist(p, CornerAt(m, other))
                     /\ \/ fc[1] < other[1]
                        \/ (fc[1] = other[1] /\ fc[2] <= other[2])
  IN  [idx |-> best[1] - 1,
       cp  |-> CornerAt(m, best),
       u   |-> IF best[2] = 2 THEN 1 ELSE 0,
       v   |-> IF best[2] = 3 THEN 1 ELSE 0]

\* the slot iteration i writes, when it is the k-th to make its call
Slot_Arrival(i, k) == k

Slot(i, k) == i

InitClosest ==
  /\ points_2d = <<>>
  /\ attribs = <<>>
  /\ triangles = {}
  /\ pixel_type = "double"
  /\ depth_img = NewImage(0, 0, Inf)
  /\ img = NewImage(0, 0, Inf)
  /\ faces_left = 0
  /\ hist = <<>>
  /\ camera = [perspective |-> FALSE, P |-> <<>>, width |-> 0, height |-> 0]
  /\ log = <<>>
  /\ returned = [by |-> "none", image |-> NewImage(0, 0, Inf)]
  /\ in_depth_map = NewImage(0, 0, Inf)
  /\ out_height_map = NewImage(0, 0, Inf)
  /\ mesh = ClosestMesh
  /\ NoBake
  /\ NoRun
  /\ NoApp
  /\ points \in [1 .. MaxPoints -> QueryPoints]
  /\ idx_vals = [i \in 1 .. MaxPoints |-> Uninitialized]
  /\ u_vals = [i \in 1 .. MaxPoints |-> Uninitialized]
  /\ v_vals = [i \in 1 .. MaxPoints |-> Uninitialized]
  /\ cp_vals = [i \in 1 .. MaxPoints |-> Uninitialized]
  /\ iter = [i \in 1 .. MaxPoints |-> Waiting]
  /\ retVal = <<>>
  /\ closest_points \in PriorLists

ClosestFrame ==
  /\ UNCHANGED <<points_2d, attribs, triangles, depth_img, img, pixel_type,
                 faces_left, hist, points>>
  /\ UNCHANGED meshvars
  /\ UNCHANGED bakevars
  /\ UNCHANGED runvars
  /\ UNCHANGED appvars

\* iteration i calls mesh_closest_point, which writes its three outputs
ClosestCall ==
  \E i \in DOMAIN iter :
    /\ iter[i].stage = "waiting"
    /\ \E r \in {mesh_closest_point(points[i], mesh)},
          s \in {Slot(i, Cardinality({j \in DOMAIN iter :
                                        iter[j].stage # "waiting"}) + 1)} :
         /\ cp_vals' = [cp_vals EXCEPT ![s] = Holding(r.cp)]
         /\ u_vals' = [u_vals EXCEPT ![s] = Holding(r.u)]
         /\ v_vals' = [v_vals EXCEPT ![s] = Holding(r.v)]
         /\ iter' = [iter EXCEPT
                       ![i] = [stage |-> "called", slot |-> s, idx |-> r.idx]]
    /\ UNCHANGED <<idx_vals, retVal, closest_points>>
    /\ ClosestFrame

\* iteration i stores the index the call returned
ClosestStore ==
  \E i \in DOMAIN iter :
    /\ iter[i].stage = "called"
    /\ idx_vals' = [idx_vals EXCEPT ![iter[i].slot] = Holding(iter[i].idx)]
    /\ iter' = [iter EXCEPT ![i] = Done]
    /\ UNCHANGED <<u_vals, v_vals, cp_vals, retVal, closest_points>>
    /\ ClosestFrame

\* after the parallel loop: the loop that fills retVal and closest_points,
\* and the return
ClosestCollect ==
  /\ \A i \in DOMAIN iter : iter[i].stage = "done"
  /\ retVal = <<>>
  /\ retVal' = [i \in DOMAIN points |->
                  <<idx_vals[i].val, u_vals[i].val, v_vals[i].val>>]
  /\ closest_points' = closest_points
                          \o [i \in DOMAIN points |-> cp_vals[i].val]
  /\ UNCHANGED iter
  /\ UNCHANGED <<idx_vals, u_vals, v_vals, cp_vals>>
  /\ ClosestFrame

NextClosest == ClosestCall \/ ClosestStore \/ ClosestCollect

SpecClosest == InitClosest /\ [][NextClosest]_vars

(***************************************************************************)
(* C30: each iteration i of the parallel loop of run_mesh_closest_points   *)
(* writes only element i of idx_vals, u_vals, v_vals and cp_vals and no    *)
(* shared container; so in every interleaving the returned list has        *)
(* points.size() tuples, the i-th tuple and the i-th appended closest      *)
(* point are the result for points[i], and the result is that of running   *)
(* the loop sequentially.                                                  *)
(***************************************************************************)
\* array element x holds the value val
Holds(x, val) == x.set /\ x.val = val

\* what the loop run sequentially returns, and what it appends
SequentialTuples ==
  [i \in DOMAIN points |->
     LET r == mesh_closest_point(points[i], mesh)
     IN  <<r.idx, r.u, r.v>>]

SequentialPoints ==
  [i \in DOMAIN points |-> mesh_closest_point(points[i], mesh).cp]

C30_OneSlotPerIteration ==
  /\ \A i \in DOMAIN points :
       \A r \in {mesh_closest_point(points[i], mesh)} :
         /\ iter[i].stage = "waiting" =>
              /\ ~cp_vals[i].set /\ ~u_vals[i].set /\ ~v_vals[i].set
              /\ ~idx_vals[i].set
         /\ iter[i].stage = "called" =>
              /\ Holds(cp_vals[i], r.cp) /\ Holds(u_vals[i], r.u)
              /\ Holds(v_vals[i], r.v)
              /\ ~idx_vals[i].set
         /\ iter[i].stage = "done" =>
              /\ Holds(cp_vals[i], r.cp) /\ Holds(u_vals[i], r.u)
              /\ Holds(v_vals[i], r.v)
              /\ Holds(idx_vals[i], r.idx)
  /\ (\E i \in DOMAIN iter : iter[i].stage # "done") =>
       /\ retVal = <<>>
       /\ closest_points \in PriorLists
  /\ retVal # <<>> =>
       /\ Len(retVal) = Len(points)
       /\ retVal = SequentialTuples
       /\ \E prior \in PriorLists :
            closest_points = prior \o SequentialPoints

\* the call has returned for three points that are not all nearest to the
\* same corner, with a list that held a point before
C30_Witness ==
  /\ Len(retVal) = MaxPoints
  /\ retVal[1] # retVal[2]
  /\ Len(closest_points) = MaxPoints + 1
  /\ closest_points[2] # closest_points[3]

====
